---- MODULE Spec2Model ----
(***************************************************************************)
(* Model of the Velox <-> Substrait plan converters of velox/substrait.     *)
(*                                                                         *)
(*   inbound  (SubstraitToVeloxPlan.cpp): extractJoinKeys, flattenConditions*)
(*            toVeloxFilter/FilterInfo, toVeloxPlan(Rel) dispatch           *)
(*   outbound (VeloxToSubstraitPlan.cpp, VeloxToSubstraitCallConverter.cpp):*)
(*            toSubstrait dispatch and per-node conversions, call converters*)
(*   lookup   (SubstraitFunctionLookup.h): wildcard function variants       *)
(*                                                                         *)
(* Each component has its own specification (SpecJoin, SpecFilter, ...);    *)
(* Spec is their union.                                                     *)
(***************************************************************************)
EXTENDS Integers, Sequences, FiniteSets, TLC

VARIABLES
    functionMap_,     \* inbound converter: function anchor -> function spec
    joinExpression,   \* extractJoinKeys: the JoinRel expression being decomposed
    joinResult,       \* extractJoinKeys: [status, leftExprs, rightExprs]
    substraitFilter,  \* toVeloxFilter: the ReadRel filter expression
    scalarFunctions,  \* toVeloxFilter: the flattened leaves
    foldIdx,          \* toVeloxFilter: index of the next leaf to fold
    colInfoMap,       \* toVeloxFilter: column index -> FilterInfo
    filters,          \* toVeloxFilter: column index -> range predicate (<<>>: none)
    filterPc,         \* toVeloxFilter: "idle", "fold", "done", "fatal", "crash"
    wildcardVariant,  \* function lookup: a wildcard-bearing function variant
    querySignature,   \* function lookup: the signature looked up
    matchResult,      \* function lookup: [status, variant] of tryMatch
    extension,        \* outbound converter: the catalog it was constructed with
    functionCollector_, \* outbound converter: the function collector member
    veloxPlan,        \* toSubstrait: the plan node passed by the caller
    planResult,    \* toSubstrait: [status, plan] of the call
    roundTrip,        \* toVeloxPlan of the produced plan: [status, node]
    numCalls,         \* plans handed to the converter
    yamlExtensionFiles, \* loadExtension: the extension files to load
    mergedExtension   \* loadExtension: [status, extension] of the call

joinVars == <<joinExpression, joinResult>>
filterVars == <<substraitFilter, scalarFunctions, foldIdx, colInfoMap, filters, filterPc>>
lookupVars == <<wildcardVariant, querySignature, matchResult>>
outVars == <<extension, functionCollector_, veloxPlan, planResult,
             roundTrip, numCalls>>
loadVars == <<yamlExtensionFiles, mergedExtension>>
vars == <<functionMap_, joinVars, filterVars, lookupVars, outVars, loadVars>>

----------------------------------------------------------------------------
(* Bounds of the model.                                                    *)

\* Largest number of leaves of a generated join condition.
MaxJoinLeaves == 3
\* Largest number of arguments of a generated "and" node.
MaxAndArity == 3
\* Largest number of leaves of a generated Read filter.
MaxFilterLeaves == 3
\* Number of columns of the Read whose filter is folded.
NumColumns == 2
\* Largest number of arguments of a generated function variant or signature.
MaxArgs == 2
MaxPlanDepth == 2
MaxCalls == 2
\* The variants of a catalog handed to the function lookup.
MaxVariants == 3
\* The measures of a generated aggregate relation.
MaxMeasures == 2
\* The longest list of extension files loaded.
MaxSources == 2
\* The batches of a generated virtual table and the literal fields of one
\* batch.
MaxBatches == 2
MaxFields == 4
MaxSortFields == 2
MaxIfArguments == 5
MaxProjections == 2
MaxNodeId == 32

----------------------------------------------------------------------------
(* Substrait expressions.  rex is Expression::rex_type_case().             *)

Selection(i) == [rex |-> "selection", idx |-> i]
Literal(t, v) == [rex |-> "literal", lit |-> t, val |-> v]
ScalarFunction(r, a) == [rex |-> "scalarFunction", ref |-> r, args |-> a]

\* A function spec ("and", "eq:i32_i32") is the sequence of its tokens, the
\* delimiter ":" being a token of its own.
PlainName(n) == <<n>>
QualifiedName(n, sig) == <<n, ":", sig>>

RECURSIVE PrefixBefore(_, _, _)
PrefixBefore(s, d, i) ==
    IF i > Len(s) THEN s
    ELSE IF s[i] = d THEN SubSeq(s, 1, i - 1)
    ELSE PrefixBefore(s, d, i + 1)

\* getNameBeforeDelimiter(spec, ":"): the part of the spec before the first
\* delimiter, the whole spec when it has none.
getNameBeforeDelimiter(s, d) == PrefixBefore(s, d, 1)

\* SubstraitParser::findFunctionSpec(functionMap_, id)
findFunctionSpec(fmap, id) == fmap[id]

\* Function anchors used by the generated inbound plans.
AnchorAnd == 1
AnchorEq == 2
AnchorOr == 3
AnchorIsNotNull == 4
AnchorGte == 5
AnchorGt == 6
AnchorLte == 7
AnchorLt == 8

\* The anchor table of a plan whose header declares bare function names.
PlainFunctionMap ==
    (AnchorAnd :> PlainName("and")) @@ (AnchorEq :> PlainName("eq"))
        @@ (AnchorOr :> PlainName("or"))
        @@ (AnchorIsNotNull :> PlainName("is_not_null"))
        @@ (AnchorGte :> PlainName("gte")) @@ (AnchorGt :> PlainName("gt"))
        @@ (AnchorLte :> PlainName("lte")) @@ (AnchorLt :> PlainName("lt"))

\* The anchor table of a plan whose header declares signature-qualified names.
QualifiedFunctionMap ==
    (AnchorAnd :> QualifiedName("and", "bool_bool"))
        @@ (AnchorEq :> QualifiedName("eq", "i32_i32"))
        @@ (AnchorOr :> QualifiedName("or", "bool_bool"))
        @@ (AnchorIsNotNull :> QualifiedName("is_not_null", "fp64"))
        @@ (AnchorGte :> QualifiedName("gte", "fp64_fp64"))
        @@ (AnchorGt :> QualifiedName("gt", "fp64_fp64"))
        @@ (AnchorLte :> QualifiedName("lte", "fp64_fp64"))
        @@ (AnchorLt :> QualifiedName("lt", "fp64_fp64"))

----------------------------------------------------------------------------
(* Inbound: join decomposition.                                            *)

Min(a, b) == IF a < b THEN a ELSE b

Eq(a, b) == ScalarFunction(AnchorEq, <<a, b>>)
And(a) == ScalarFunction(AnchorAnd, a)
Or(a) == ScalarFunction(AnchorOr, a)

\* Leaves of the generated join conditions: eq of two field references, eq
\* with a literal operand, an "or" node, and a bare field reference.
JoinLeaves ==
    { Eq(Selection(0), Selection(2)),
      Eq(Selection(1), Selection(3)),
      Eq(Selection(0), Literal("fp64", 5)),
      Or(<<Eq(Selection(0), Selection(2)), Eq(Selection(1), Selection(3))>>),
      Selection(0) }

RECURSIVE AndTrees(_, _), AndForests(_, _, _)
\* Conditions with exactly k leaves drawn from L: a leaf, or an "and" of
\* 2..MaxAndArity conditions.
AndTrees(L, k) ==
    IF k = 1 THEN L
    ELSE UNION { { And(f) : f \in AndForests(L, k, m) } :
                 m \in 2..Min(k, MaxAndArity) }
\* Sequences of m conditions with k leaves in total.
AndForests(L, k, m) ==
    IF m = 1 THEN { <<t>> : t \in AndTrees(L, k) }
    ELSE UNION { { <<t>> \o f : t \in AndTrees(L, j),
                                f \in AndForests(L, k - j, m - 1) } :
                 j \in 1..(k - m + 1) }

JoinExpressions == UNION { AndTrees(JoinLeaves, k) : k \in 1..MaxJoinLeaves }

\* The loop of extractJoinKeys: `expressions` is the stack (its back is the
\* last element), visited = expressions.back().
RECURSIVE ExtractLoop(_, _, _, _)
ExtractLoop(fmap, expressions, leftExprs, rightExprs) ==
    IF expressions = <<>>
    THEN [status |-> "done", leftExprs |-> leftExprs, rightExprs |-> rightExprs]
    ELSE
      LET visited == expressions[Len(expressions)]
          rest == SubSeq(expressions, 1, Len(expressions) - 1)
      IN  IF visited.rex # "scalarFunction"
          THEN \* VELOX_FAIL("Unable to parse from join expression")
               [status |-> "fatal", leftExprs |-> leftExprs, rightExprs |-> rightExprs]
          ELSE
            LET funcName == findFunctionSpec(fmap, visited.ref)
                args == visited.args
            IN  IF funcName = PlainName("and")
                THEN ExtractLoop(fmap, rest \o <<args[1], args[2]>>,
                                 leftExprs, rightExprs)
                ELSE IF funcName = PlainName("eq")
                THEN IF \A i \in 1..Len(args) : args[i].rex = "selection"
                     THEN ExtractLoop(fmap, rest,
                                      Append(leftExprs, args[1]),
                                      Append(rightExprs, args[2]))
                     ELSE \* VELOX_CHECK(std::all_of(... has_selection()))
                          [status |-> "fatal", leftExprs |-> leftExprs,
                           rightExprs |-> rightExprs]
                ELSE \* VELOX_NYI("Join condition {} not supported.")
                     [status |-> "fatal", leftExprs |-> leftExprs,
                      rightExprs |-> rightExprs]

\* SubstraitVeloxPlanConverter::extractJoinKeys
extractJoinKeys(fmap, expr) == ExtractLoop(fmap, <<expr>>, <<>>, <<>>)

NoJoinResult == [status |-> "idle", leftExprs |-> <<>>, rightExprs |-> <<>>]

\* toVeloxPlan(JoinRel) calls extractJoinKeys on sJoin.expression().
ExtractJoinKeys ==
    /\ joinResult.status = "idle"
    /\ joinResult' = extractJoinKeys(functionMap_, joinExpression)
    /\ UNCHANGED <<loadVars, functionMap_, joinExpression, filterVars, lookupVars, outVars>>


----------------------------------------------------------------------------
(* Inbound: filter flattening and range folding (Read filter pushdown).    *)

\* class FilterInfo: left_/right_ are std::optional<double>, <<>> is nullopt.
NewFilterInfo ==
    [left_ |-> <<>>, right_ |-> <<>>, nullAllowed_ |-> TRUE,
     leftExclusive_ |-> FALSE, rightExclusive_ |-> FALSE,
     isInitialized_ |-> FALSE]

\* A setLeft that keeps the tightest lower bound instead of the last one.
setLeft_KeepsTightest(info, left, isExclusive) ==
    IF info.left_ # <<>> /\ info.left_[1] >= left
    THEN [info EXCEPT !.isInitialized_ = TRUE]
    ELSE [info EXCEPT !.left_ = <<left>>, !.leftExclusive_ = isExclusive,
                      !.isInitialized_ = TRUE]

\* FilterInfo::setLeft
setLeft(info, left, isExclusive) ==
    [info EXCEPT !.left_ = <<left>>, !.leftExclusive_ = isExclusive,
                 !.isInitialized_ = TRUE]

\* FilterInfo::setRight
setRight(info, right, isExclusive) ==
    [info EXCEPT !.right_ = <<right>>, !.rightExclusive_ = isExclusive,
                 !.isInitialized_ = TRUE]

\* A forbidsNull that starts from a fresh FilterInfo, losing the bounds folded
\* before it.
forbidsNull_ResetsBounds(info) ==
    [left_ |-> <<>>, right_ |-> <<>>, nullAllowed_ |-> FALSE,
     leftExclusive_ |-> FALSE, rightExclusive_ |-> FALSE,
     isInitialized_ |-> TRUE]

\* FilterInfo::forbidsNull
forbidsNull(info) ==
    [info EXCEPT !.nullAllowed_ = FALSE, !.isInitialized_ = TRUE]

\* Values an uninitialised double local may hold.
UninitDoubles == {0, 99}
\* Values an uninitialised int32_t column index may hold; NumColumns stands
\* for every index colInfoMap has no FilterInfo for.
UninitColIdx == 0..NumColumns

\* flattenConditions: [ok, leaves].  Only a scalar function is accepted; an
\* "and" is split recursively, any other function is one leaf.
RECURSIVE flattenConditions(_, _), FlattenArgs(_, _, _)
flattenConditions(fmap, expr) ==
    IF expr.rex # "scalarFunction"
    THEN \* VELOX_NYI("GetFlatConditions not supported for type")
         [ok |-> FALSE, leaves |-> <<>>]
    ELSE IF getNameBeforeDelimiter(findFunctionSpec(fmap, expr.ref), ":") = <<"and">>
         THEN FlattenArgs(fmap, expr.args, 1)
         ELSE [ok |-> TRUE, leaves |-> <<expr>>]
\* for (const auto& sCondition : sFunc.arguments()) flattenConditions(...)
FlattenArgs(fmap, args, i) ==
    IF i > Len(args) THEN [ok |-> TRUE, leaves |-> <<>>]
    ELSE LET head == flattenConditions(fmap, args[i])
         IN  IF ~head.ok THEN head
             ELSE LET rest == FlattenArgs(fmap, args, i + 1)
                  IN  [ok |-> rest.ok, leaves |-> head.leaves \o rest.leaves]

\* Expression_Literal::fp64(): the value of the fp64 member of the literal's
\* oneof, 0 when another member is set.
LiteralFp64(l) == IF l.lit = "fp64" THEN l.val ELSE 0

\* SubstraitParser::parseReferenceSegment on a direct struct-field reference.
parseReferenceSegment(sel) == sel.idx

LastOf(args, kind) ==
    LET S == { i \in 1..Len(args) : args[i].rex = kind }
    IN  IF S = {} THEN 0 ELSE CHOOSE i \in S : \A j \in S : j <= i

\* The values colIdx can hold after the argument loop of a leaf: the index of
\* its last field argument, indeterminate when it has none.
LeafColIdx(args) ==
    IF LastOf(args, "selection") = 0 THEN UninitColIdx
    ELSE { parseReferenceSegment(args[LastOf(args, "selection")]) }

\* The values val can hold after the argument loop of a leaf.
LeafVal(args) ==
    IF LastOf(args, "literal") = 0 THEN UninitDoubles
    ELSE { LiteralFp64(args[LastOf(args, "literal")]) }

\* Lines 575-589: the update of the column's FilterInfo by one leaf.
FoldInto(info, filterName, val) ==
    IF filterName = <<"is_not_null">> THEN forbidsNull(info)
    ELSE IF filterName = <<"gte">> THEN setLeft(info, val, FALSE)
    ELSE IF filterName = <<"gt">> THEN setLeft(info, val, TRUE)
    ELSE IF filterName = <<"lte">> THEN setRight(info, val, FALSE)
    ELSE setRight(info, val, TRUE)

FilterNames == { <<"is_not_null">>, <<"gte">>, <<"gt">>, <<"lte">>, <<"lt">> }

\* The leaf's name reads `val`.
UsesVal(filterName) == filterName \in FilterNames \ { <<"is_not_null">> }

\* Lines 592-623: the range predicate built for one column.
RangesOf(info) ==
    IF ~info.isInitialized_ THEN { <<>> }
    ELSE { << [ lower |-> lo,
                lowerUnbounded |-> info.left_ = <<>>,
                lowerExclusive |-> IF info.left_ = <<>> THEN FALSE
                                   ELSE info.leftExclusive_,
                upper |-> hi,
                upperUnbounded |-> info.right_ = <<>>,
                upperExclusive |-> IF info.right_ = <<>> THEN FALSE
                                   ELSE info.rightExclusive_,
                nullAllowed |-> info.nullAllowed_ ] >> :
             lo \in (IF info.left_ = <<>> THEN UninitDoubles ELSE {info.left_[1]}),
             hi \in (IF info.right_ = <<>> THEN UninitDoubles ELSE {info.right_[1]}) }

Columns == 0..(NumColumns - 1)

FilterIdle ==
    /\ substraitFilter = Selection(0)
    /\ scalarFunctions = <<>>
    /\ foldIdx = 0
    /\ colInfoMap = <<>>
    /\ filters = <<>>
    /\ filterPc = "off"

Gte(a) == ScalarFunction(AnchorGte, a)
Gt(a) == ScalarFunction(AnchorGt, a)
Lte(a) == ScalarFunction(AnchorLte, a)
Lt(a) == ScalarFunction(AnchorLt, a)
IsNotNull(a) == ScalarFunction(AnchorIsNotNull, a)

\* Leaves of the generated Read filters.
FilterLeaves ==
    { Gte(<<Selection(0), Literal("fp64", 5)>>),
      Gt(<<Selection(0), Literal("fp64", 3)>>),
      Lt(<<Selection(0), Literal("fp64", 10)>>),
      IsNotNull(<<Selection(0)>>),
      Lte(<<Selection(1), Literal("fp64", 7)>>),
      Or(<<IsNotNull(<<Selection(0)>>), IsNotNull(<<Selection(1)>>)>>) }

FilterExpressions ==
    UNION { AndTrees(FilterLeaves, k) : k \in 1..MaxFilterLeaves }

\* Leaves with and without the field and the literal argument, and a leaf of
\* a function that is not folded.
ArgumentLeaves ==
    { Gte(<<Selection(0), Literal("fp64", 5)>>),
      Lt(<<Literal("fp64", 10), Selection(1)>>),
      IsNotNull(<<Selection(0)>>),
      Gte(<<Literal("fp64", 5)>>),
      Lte(<<Selection(1)>>),
      Gt(<<>>),
      IsNotNull(<<>>),
      Or(<<Selection(0), Literal("fp64", 1)>>) }

\* A leaf, or the conjunction of up to MaxFilterLeaves leaves.
ArgumentFilters ==
    ArgumentLeaves
        \cup UNION { { And(leaves) : leaves \in [1..k -> ArgumentLeaves] } :
                     k \in 2..MaxFilterLeaves }

\* toVeloxFilter, lines 536-544: one FilterInfo per input column, then the
\* filter is flattened.
FlattenFilter ==
    /\ filterPc = "idle"
    /\ LET flat == flattenConditions(functionMap_, substraitFilter)
       IN  /\ scalarFunctions' = flat.leaves
           /\ filterPc' = IF flat.ok THEN "fold" ELSE "fatal"
    /\ colInfoMap' = [c \in Columns |-> NewFilterInfo]
    /\ foldIdx' = 1
    /\ UNCHANGED <<loadVars, functionMap_, joinVars, lookupVars, outVars, substraitFilter,
                   filters>>

\* toVeloxFilter, lines 546-590: one iteration of the loop over the leaves.
FoldLeaf ==
    /\ filterPc = "fold"
    /\ foldIdx <= Len(scalarFunctions)
    /\ LET scalarFunction == scalarFunctions[foldIdx]
           filterName == getNameBeforeDelimiter(
               findFunctionSpec(functionMap_, scalarFunction.ref), ":")
           args == scalarFunction.args
       IN  IF \E i \in 1..Len(args) : args[i].rex \notin {"selection", "literal"}
           THEN \* VELOX_NYI("Substrait conversion not supported for arg type")
                /\ filterPc' = "fatal"
                /\ UNCHANGED <<colInfoMap, foldIdx>>
           ELSE IF filterName \notin FilterNames
           THEN \* VELOX_NYI("Substrait conversion not supported for filter name")
                /\ filterPc' = "fatal"
                /\ UNCHANGED <<colInfoMap, foldIdx>>
           ELSE \E colIdx \in LeafColIdx(args) :
                \E val \in (IF UsesVal(filterName) THEN LeafVal(args) ELSE {0}) :
                   IF colIdx \notin DOMAIN colInfoMap
                   THEN \* colInfoMap[colIdx] is a null shared_ptr
                        /\ filterPc' = "crash"
                        /\ UNCHANGED <<colInfoMap, foldIdx>>
                   ELSE /\ colInfoMap' =
                             [colInfoMap EXCEPT ![colIdx] = FoldInto(@, filterName, val)]
                        /\ foldIdx' = foldIdx + 1
                        /\ UNCHANGED filterPc
    /\ UNCHANGED <<loadVars, functionMap_, joinVars, lookupVars, outVars, substraitFilter,
                   scalarFunctions, filters>>

\* toVeloxFilter, lines 592-624: the range predicates of the initialised
\* columns.
ConstructFilters ==
    /\ filterPc = "fold"
    /\ foldIdx > Len(scalarFunctions)
    /\ filters' \in { f \in [Columns -> UNION { RangesOf(colInfoMap[c]) : c \in Columns }] :
                       \A c \in Columns : f[c] \in RangesOf(colInfoMap[c]) }
    /\ filterPc' = "done"
    /\ UNCHANGED <<loadVars, functionMap_, joinVars, lookupVars, outVars, substraitFilter,
                   scalarFunctions, foldIdx, colInfoMap>>

----------------------------------------------------------------------------
(* Function lookup: wildcard function variants.                            *)

\* Type expressions of the catalog: concrete types and type variables.
ConcreteTypes == {"i32", "fp64"}
WildcardTypes == {"any1", "any2"}
TypeExprs == ConcreteTypes \cup WildcardTypes

\* A function variant of the catalog.
FunctionVariant(name, args, ret, uri) ==
    [name |-> name, args |-> args, ret |-> ret, uri |-> uri,
     intermediate |-> <<>>]

\* A function signature: the name and the concrete argument types.
Signature(name, args) == [name |-> name, args |-> args]

HasWildcard(variant) ==
    \E i \in 1..Len(variant.args) : variant.args[i] \in WildcardTypes

\* WildcardFunctionVariant(functionVariant): typeTraits maps each argument
\* position to its type reference.
WildcardFunctionVariant(variant) ==
    [typeTraits |-> [pos \in 1..Len(variant.args) |-> variant.args[pos]],
     underlying_ |-> variant]

\* An isSameTypeTraits that binds every occurrence of a type variable on its
\* own.
isSameTypeTraits_BindsPerPosition(wildcard, signature) ==
    /\ Len(signature.args) = Len(wildcard.typeTraits)
    /\ \A i \in 1..Len(signature.args) :
          wildcard.typeTraits[i] \notin WildcardTypes
              => signature.args[i] = wildcard.typeTraits[i]

\* WildcardFunctionVariant::isSameTypeTraits: the signature has the variant's
\* arity, agrees with its concrete types, and gives one type to all the
\* positions of one type variable.
isSameTypeTraits(wildcard, signature) ==
    /\ Len(signature.args) = Len(wildcard.typeTraits)
    /\ \A i \in 1..Len(signature.args) :
          wildcard.typeTraits[i] \notin WildcardTypes
              => signature.args[i] = wildcard.typeTraits[i]
    /\ \A i, j \in 1..Len(signature.args) :
          wildcard.typeTraits[i] = wildcard.typeTraits[j]
              => signature.args[i] = signature.args[j]

\* WildcardFunctionVariant::tryMatch: the underlying variant, <<>> for
\* std::nullopt.
tryMatch(wildcard, signature) ==
    IF isSameTypeTraits(wildcard, signature)
    THEN << wildcard.underlying_ >>
    ELSE <<>>

ArgLists(types) == UNION { [1..n -> types] : n \in 1..MaxArgs }

\* The wildcard-bearing variants and the signatures of the lookup component.
WildcardVariants ==
    { v \in { FunctionVariant("add", a, "any1", "functions_arithmetic.yaml") :
              a \in ArgLists(TypeExprs) } : HasWildcard(v) }
QuerySignatures ==
    { Signature("add", a) : a \in ArgLists(ConcreteTypes) }

LookupIdle ==
    /\ wildcardVariant = FunctionVariant("", <<>>, "", "")
    /\ querySignature = Signature("", <<>>)
    /\ matchResult = [status |-> "off", variant |-> <<>>]

\* SubstraitFunctionFinder::lookupFunction, the scan of
\* wildcardFunctionVariants_: one variant is tried against the signature.
TryMatch ==
    /\ matchResult.status = "idle"
    /\ matchResult' =
          [status |-> "done",
           variant |-> tryMatch(WildcardFunctionVariant(wildcardVariant),
                                querySignature)]
    /\ UNCHANGED <<loadVars, functionMap_, joinVars, filterVars, outVars, wildcardVariant,
                   querySignature>>

----------------------------------------------------------------------------
(* Function lookup and the function collector of the outbound converter.   *)

\* VeloxToSubstraitFunctionMappings: the Substrait name of a Velox function
\* whose names differ, the Velox name otherwise.
FunctionMappings(name) ==
    IF name = "plus" THEN "add" ELSE name

\* VeloxToSubstraitTypeConvertor::toSubstraitType on the scalar types.
toSubstraitType(type) ==
    CASE type = "INTEGER" -> "i32"
      [] type = "BIGINT" -> "i64"
      [] type = "DOUBLE" -> "fp64"
      [] type = "BOOLEAN" -> "bool"

\* toVeloxType on the scalar types.
toVeloxType(type) ==
    CASE type = "i32" -> "INTEGER"
      [] type = "i64" -> "BIGINT"
      [] type = "fp64" -> "DOUBLE"
      [] type = "bool" -> "BOOLEAN"

\* toSubstraitSignature(call): the call's name and the Substrait types of
\* its arguments.
toSubstraitSignature(call) ==
    Signature(call.name,
              [i \in 1..Len(call.inputs) |-> toSubstraitType(call.inputs[i].type)])

\* The first of the variants at the given positions, <<>> when there is
\* none.
FirstIn(functionVariants, hits) ==
    IF hits = {} THEN <<>>
    ELSE << functionVariants[CHOOSE i \in hits : \A j \in hits : i <= j] >>

\* A lookup that scans the wildcard variants before the direct and the
\* intermediate map.
lookupFunction_WildcardFirst(functionVariants, forAggregateFunc, signature) ==
    LET name == FunctionMappings(signature.name)
        bucket == { i \in 1..Len(functionVariants) :
                    functionVariants[i].name = name }
        direct == { i \in bucket :
                    /\ ~HasWildcard(functionVariants[i])
                    /\ functionVariants[i].args = signature.args }
        intermediate == { i \in bucket :
                          /\ forAggregateFunc
                          /\ functionVariants[i].intermediate # <<>>
                          /\ signature.args = functionVariants[i].intermediate }
        wildcard == { i \in bucket :
                      /\ HasWildcard(functionVariants[i])
                      /\ tryMatch(WildcardFunctionVariant(functionVariants[i]),
                                  signature) # <<>> }
    IN  IF wildcard # {} THEN FirstIn(functionVariants, wildcard)
        ELSE IF direct # {} THEN FirstIn(functionVariants, direct)
        ELSE FirstIn(functionVariants, intermediate)

\* SubstraitFunctionLookup::lookupFunction: the bucket of the mapped name,
\* then the exact signature (directMap_), then for aggregates the
\* intermediate signature (intermediateMap_), then the wildcard variants in
\* catalog order.  <<>> is std::nullopt.
lookupFunction(functionVariants, forAggregateFunc, signature) ==
    LET name == FunctionMappings(signature.name)
        bucket == { i \in 1..Len(functionVariants) :
                    functionVariants[i].name = name }
        direct == { i \in bucket :
                    /\ ~HasWildcard(functionVariants[i])
                    /\ functionVariants[i].args = signature.args }
        intermediate == { i \in bucket :
                          /\ forAggregateFunc
                          /\ functionVariants[i].intermediate # <<>>
                          /\ signature.args = functionVariants[i].intermediate }
        wildcard == { i \in bucket :
                      /\ HasWildcard(functionVariants[i])
                      /\ tryMatch(WildcardFunctionVariant(functionVariants[i]),
                                  signature) # <<>> }
    IN  IF direct # {} THEN FirstIn(functionVariants, direct)
        ELSE IF intermediate # {} THEN FirstIn(functionVariants, intermediate)
        ELSE FirstIn(functionVariants, wildcard)

\* A scalar / an aggregate variant of the catalog.
ScalarVariant(name, args, ret) ==
    [name |-> name, args |-> args, ret |-> ret, uri |-> "functions.yaml",
     intermediate |-> <<>>]
AggregateVariant(name, args, ret, intermediate) ==
    [name |-> name, args |-> args, ret |-> ret,
     uri |-> "functions_aggregate.yaml", intermediate |-> intermediate]

\* The variants the lookup catalogs are built from: an exact and an
\* intermediate signature of sum, two wildcard variants of sum, and avg.
LookupPool ==
    { AggregateVariant("sum", <<"i32">>, "i64", <<"i64">>),
      AggregateVariant("sum", <<"i64">>, "i64", <<>>),
      AggregateVariant("sum", <<"any1">>, "any1", <<>>),
      AggregateVariant("sum", <<"any1">>, "i64", <<>>),
      AggregateVariant("avg", <<"fp64">>, "fp64", <<"fp64">>) }

\* The catalogs of the lookup component: the lists of at most MaxVariants
\* different variants, in every order.
LookupCatalogs ==
    UNION { { c \in [1..n -> LookupPool] :
              \A i, j \in 1..n : i # j => c[i] # c[j] } : n \in 0..MaxVariants }

\* A scalar variant has no intermediate type.
AsScalarVariants(functionVariants) ==
    [i \in 1..Len(functionVariants) |->
        [functionVariants[i] EXCEPT !.intermediate = <<>>]]

LookupSignatures ==
    { Signature("sum", <<"i32">>), Signature("sum", <<"i64">>),
      Signature("sum", <<"fp64">>), Signature("sum", <<"i32", "i32">>),
      Signature("avg", <<"fp64">>), Signature("count", <<"i32">>) }

\* SubstraitScalarFunctionLookup::lookupFunction on the scalar variants of
\* the extension.
LookupScalarFunction ==
    /\ matchResult.status = "lookup"
    /\ matchResult' =
          [status |-> "looked up", forAggregateFunc |-> FALSE,
           variant |-> lookupFunction(extension.scalarFunctionVariants, FALSE,
                                      querySignature)]
    /\ UNCHANGED <<loadVars, functionMap_, joinVars, filterVars, outVars, wildcardVariant,
                   querySignature>>

\* SubstraitAggregateFunctionLookup::lookupFunction on the aggregate
\* variants of the extension.
LookupAggregateFunction ==
    /\ matchResult.status = "lookup"
    /\ matchResult' =
          [status |-> "looked up", forAggregateFunc |-> TRUE,
           variant |-> lookupFunction(extension.aggregateFunctionVariants,
                                      TRUE, querySignature)]
    /\ UNCHANGED <<loadVars, functionMap_, joinVars, filterVars, outVars, wildcardVariant,
                   querySignature>>

\* SubstraitFunctionCollector: the variants referenced so far, in the order
\* of their first request; the anchor of a variant is its position, so
\* anchor 0 is never used.  `requests` records every getFunctionReference
\* call made on the collector as <<variant, anchor>>.
NewCollector == [functions |-> <<>>, requests |-> <<>>]

AnchorOf(functions, variant) ==
    CHOOSE i \in 1..Len(functions) : functions[i] = variant

\* SubstraitFunctionCollector::getFunctionReference: the existing anchor of
\* the variant, or the next one.
getFunctionReference(collector, variant) ==
    LET known == \E i \in 1..Len(collector.functions) :
                     collector.functions[i] = variant
        functions == IF known THEN collector.functions
                     ELSE Append(collector.functions, variant)
        anchor == AnchorOf(functions, variant)
    IN  [anchor |-> anchor,
         collector |-> [functions |-> functions,
                        requests |-> Append(collector.requests,
                                            <<variant, anchor>>)]]

\* SubstraitFunctionCollector::addExtensionToPlan: one extension declaration
\* (anchor, uri, name) per collected variant.
addExtensionToPlan(collector) ==
    [i \in 1..Len(collector.functions) |->
        [functionAnchor |-> i,
         uri |-> collector.functions[i].uri,
         name |-> PlainName(collector.functions[i].name)]]

----------------------------------------------------------------------------
(* Velox expressions and their outbound conversion.                        *)

\* core::FieldAccessTypedExpr, core::ConstantTypedExpr, core::CallTypedExpr
FieldAccess(name, type) == [e |-> "field", name |-> name, type |-> type]
Constant(type, value) == [e |-> "constant", type |-> type, value |-> value]
Call(name, inputs, type) ==
    [e |-> "call", name |-> name, inputs |-> inputs, type |-> type]

\* A RowType is a sequence of [name, type].
Column(name, type) == [name |-> name, type |-> type]

\* RowType::getChildIdx, 0-based; -1 when the row has no such column.
getChildIdx(rowType, name) ==
    LET hits == { i \in 1..Len(rowType) : rowType[i].name = name }
    IN  IF hits = {} THEN -1
        ELSE (CHOOSE i \in hits : \A j \in hits : i <= j) - 1

\* An unset Substrait message.
NotSet == [rex |-> "notSet"]

\* A scalar function as the outbound converter emits it.
TypedScalarFunction(r, a, t) ==
    [rex |-> "scalarFunction", ref |-> r, args |-> a, outputType |-> t]
IfThen(ifs, else) == [rex |-> "ifThen", ifs |-> ifs, else_ |-> else]

\* The outcome of a conversion that throws.
Thrown(collector) == [ok |-> FALSE, expr |-> NotSet, collector |-> collector]
Converted(expr, collector) == [ok |-> TRUE, expr |-> expr, collector |-> collector]
\* The outcome of a call converter that declines (std::nullopt).
Declined(collector) ==
    [declined |-> TRUE, ok |-> TRUE, expr |-> NotSet, collector |-> collector]
Accepted(result) ==
    [declined |-> FALSE, ok |-> result.ok, expr |-> result.expr,
     collector |-> result.collector]

RECURSIVE toSubstraitExpr(_, _, _, _), ConvertInputs(_, _, _, _, _)
RECURSIVE ConvertInputsAfter(_, _, _, _, _)
RECURSIVE IfThenConvert(_, _, _, _), ScalarFunctionConvert(_, _, _, _)

\* The converted inputs so far: head followed by the inputs after it.
ConsInput(head, rest) ==
    [ok |-> rest.ok, exprs |-> <<head.expr>> \o rest.exprs,
     collector |-> rest.collector]

\* The inputs after inputs[i], given the conversion of inputs[i]: a failed
\* conversion ends the loop.
ConvertInputsAfter(catalog, head, inputs, inputType, i) ==
    IF ~head.ok
    THEN [ok |-> FALSE, exprs |-> <<>>, collector |-> head.collector]
    ELSE ConsInput(head, ConvertInputs(catalog, head.collector, inputs,
                                       inputType, i + 1))

\* topLevelConverter applied to inputs[i..] in order: [ok, exprs, collector].
ConvertInputs(catalog, collector, inputs, inputType, i) ==
    IF i > Len(inputs) THEN [ok |-> TRUE, exprs |-> <<>>, collector |-> collector]
    ELSE ConvertInputsAfter(catalog,
             toSubstraitExpr(catalog, collector, inputs[i], inputType),
             inputs, inputType, i)

\* VeloxToSubstraitIfThenConverter::convert, once the arguments are
\* converted: the clauses pair the arguments up and the last is the else.
IfThenOfArguments(args, last) ==
    IF ~args.ok THEN Accepted(Thrown(args.collector))
    ELSE Accepted(Converted(
            IfThen([k \in 1..((last - 1) \div 2) |->
                       [if_ |-> args.exprs[2 * k - 1],
                        then_ |-> args.exprs[2 * k]]],
                   args.exprs[last]),
            args.collector))

\* An if/then converter that accepts any positive number of arguments.
IfThenConvert_AcceptsEvenCounts(catalog, collector, call, inputType) ==
    IF call.name # "if" THEN Declined(collector)
    ELSE IF Len(call.inputs) = 0 THEN Accepted(Thrown(collector))
    ELSE IfThenOfArguments(
             ConvertInputs(catalog, collector, call.inputs, inputType, 1),
             Len(call.inputs))

\* VeloxToSubstraitIfThenConverter::convert
IfThenConvert(catalog, collector, call, inputType) ==
    IF call.name # "if" THEN Declined(collector)
    ELSE IF Len(call.inputs) % 2 # 1
    THEN \* VELOX_NYI("Number of arguments are always going to be odd")
         Accepted(Thrown(collector))
    ELSE IfThenOfArguments(
             ConvertInputs(catalog, collector, call.inputs, inputType, 1),
             Len(call.inputs))

\* VeloxToSubstraitScalarFunctionConverter::convert, once the arguments are
\* converted: the scalar function with its reference, arguments and type.
ScalarFunctionOfArguments(functionReference, args, type) ==
    IF ~args.ok THEN Accepted(Thrown(args.collector))
    ELSE Accepted(Converted(
            TypedScalarFunction(functionReference, args.exprs,
                                toSubstraitType(type)),
            args.collector))

\* A scalar-function converter that never sets function_reference, so the
\* emitted reference is the default 0.
ScalarFunctionConvert_NoReference(catalog, collector, call, inputType) ==
    LET scalarFunctionOption ==
            lookupFunction(catalog.scalarFunctionVariants, FALSE,
                           toSubstraitSignature(call))
    IN  IF scalarFunctionOption = <<>> THEN Declined(collector)
        ELSE LET reference == getFunctionReference(collector,
                                                   scalarFunctionOption[1])
             IN  ScalarFunctionOfArguments(0,
                     ConvertInputs(catalog, reference.collector,
                                   call.inputs, inputType, 1),
                     call.type)

\* The outcome of a scalar-function converter that has converted the
\* arguments before it looks the function up.
ScalarFunctionAfterArguments(scalarFunctionOption, args, type) ==
    IF ~args.ok THEN Accepted(Thrown(args.collector))
    ELSE IF scalarFunctionOption = <<>> THEN Declined(args.collector)
    ELSE ScalarFunctionOfArguments(
             getFunctionReference(args.collector,
                                  scalarFunctionOption[1]).anchor,
             [args EXCEPT !.collector =
                 getFunctionReference(args.collector,
                                      scalarFunctionOption[1]).collector],
             type)

\* A scalar-function converter that converts the arguments first and looks
\* the function up afterwards.
ScalarFunctionConvert_ArgumentsFirst(catalog, collector, call, inputType) ==
    ScalarFunctionAfterArguments(
        lookupFunction(catalog.scalarFunctionVariants, FALSE,
                       toSubstraitSignature(call)),
        ConvertInputs(catalog, collector, call.inputs, inputType, 1),
        call.type)

\* VeloxToSubstraitScalarFunctionConverter::convert
ScalarFunctionConvert(catalog, collector, call, inputType) ==
    LET scalarFunctionOption ==
            lookupFunction(catalog.scalarFunctionVariants, FALSE,
                           toSubstraitSignature(call))
    IN  IF scalarFunctionOption = <<>> THEN Declined(collector)
        ELSE LET reference == getFunctionReference(collector,
                                                   scalarFunctionOption[1])
             IN  ScalarFunctionOfArguments(reference.anchor,
                     ConvertInputs(catalog, reference.collector,
                                   call.inputs, inputType, 1),
                     call.type)

\* The call converters in order: the first that accepts the call decides,
\* and a call every converter declined is fatal.
FirstAccepted(ifThen, scalar, collector) ==
    IF ~ifThen.declined
    THEN [ok |-> ifThen.ok, expr |-> ifThen.expr,
          collector |-> ifThen.collector]
    ELSE IF ~scalar.declined
    THEN [ok |-> scalar.ok, expr |-> scalar.expr,
          collector |-> scalar.collector]
    ELSE \* the collector as the converters that declined left it
         Thrown(scalar.collector)

\* VeloxToSubstraitExprConvertor::toSubstraitExpr: literals and field
\* references convert by rule; a call is offered to the call converters in
\* order (if/then, scalar function) and is fatal once all have declined.
toSubstraitExpr(catalog, collector, expr, inputType) ==
    IF expr.e = "constant"
    THEN Converted(Literal(toSubstraitType(expr.type), expr.value), collector)
    ELSE IF expr.e = "field"
    THEN IF getChildIdx(inputType, expr.name) < 0 THEN Thrown(collector)
         ELSE Converted(Selection(getChildIdx(inputType, expr.name)), collector)
    ELSE FirstAccepted(
             IfThenConvert(catalog, collector, expr, inputType),
             ScalarFunctionConvert(catalog, collector, expr, inputType),
             collector)

----------------------------------------------------------------------------
(* Velox plan nodes.                                                       *)

\* A null expression pointer (an absent aggregate mask or join filter).
NullExpr == [e |-> "null"]

ValuesNode(id, outputType, values) ==
    [node |-> "Values", id |-> id, outputType |-> outputType,
     values |-> values, sources |-> <<>>]
TableScanNode(id, outputType) ==
    [node |-> "TableScan", id |-> id, outputType |-> outputType,
     sources |-> <<>>]
FilterNode(id, filter, source) ==
    [node |-> "Filter", id |-> id, filter |-> filter, sources |-> <<source>>]
ProjectNode(id, names, projections, source) ==
    [node |-> "Project", id |-> id, names |-> names,
     projections |-> projections, sources |-> <<source>>]
AggregationNode(id, step, groupingKeys, names, aggregates, aggregateMasks, source) ==
    [node |-> "Aggregation", id |-> id, step |-> step,
     groupingKeys |-> groupingKeys, names |-> names,
     aggregates |-> aggregates, aggregateMasks |-> aggregateMasks,
     sources |-> <<source>>]
OrderByNode(id, sortingKeys, sortingOrders, source) ==
    [node |-> "OrderBy", id |-> id, sortingKeys |-> sortingKeys,
     sortingOrders |-> sortingOrders, sources |-> <<source>>]
LimitNode(id, offset, count, source) ==
    [node |-> "Limit", id |-> id, offset |-> offset, count |-> count,
     sources |-> <<source>>]
HashJoinNode(id, joinType, leftKeys, rightKeys, filter, left, right, rowType) ==
    [node |-> "HashJoin", id |-> id, joinType |-> joinType,
     leftKeys |-> leftKeys, rightKeys |-> rightKeys, filter |-> filter,
     sources |-> <<left, right>>, outputType |-> rowType]

\* PlanNode::outputType
RECURSIVE outputType(_)
outputType(planNode) ==
    CASE planNode.node \in {"Values", "TableScan", "HashJoin"} ->
             planNode.outputType
      [] planNode.node \in {"Filter", "OrderBy", "Limit"} ->
             outputType(planNode.sources[1])
      [] planNode.node = "Project" ->
             [i \in 1..Len(planNode.names) |->
                 Column(planNode.names[i], planNode.projections[i].type)]
      [] planNode.node = "Aggregation" ->
             [i \in 1..Len(planNode.groupingKeys) |->
                 Column(planNode.groupingKeys[i].name,
                        planNode.groupingKeys[i].type)]
             \o [i \in 1..Len(planNode.names) |->
                 Column(planNode.names[i], planNode.aggregates[i].type)]

----------------------------------------------------------------------------
(* Substrait relations.                                                    *)

\* A Rel whose rel_type is not set, and a sub-message that is not present.
EmptyRel == [rel |-> "notSet"]
AbsentRel == [rel |-> "absent"]

\* The outcome of a plan-node conversion that throws, and of one that
\* returns.
RelThrown(collector) ==
    [ok |-> FALSE, rel |-> EmptyRel, collector |-> collector]
RelConverted(rel, collector) ==
    [ok |-> TRUE, rel |-> rel, collector |-> collector]

\* A phase mapping that exchanges the phases of kSingle and kFinal.
toAggregationPhase_SwapsResultPhases(step) ==
    CASE step = "kPartial" -> "INITIAL_TO_INTERMEDIATE"
      [] step = "kIntermediate" -> "INTERMEDIATE_TO_INTERMEDIATE"
      [] step = "kSingle" -> "INTERMEDIATE_TO_RESULT"
      [] step = "kFinal" -> "INITIAL_TO_RESULT"

\* toAggregationPhase
toAggregationPhase(step) ==
    CASE step = "kPartial" -> "INITIAL_TO_INTERMEDIATE"
      [] step = "kIntermediate" -> "INTERMEDIATE_TO_INTERMEDIATE"
      [] step = "kSingle" -> "INITIAL_TO_RESULT"
      [] step = "kFinal" -> "INTERMEDIATE_TO_RESULT"

\* mergeRowTypes
mergeRowTypes(leftRowTypePtr, rightRowTypePtr) ==
    leftRowTypePtr \o rightRowTypePtr

\* checkForSupportJoinType
checkForSupportJoinType(nodePtr) == nodePtr.joinType = "kInner"

\* toSubstraitExpr(arena, ConstantTypedExpr(child), litValue) for every child
\* of one row vector: the literals of the children, column after column.
RECURSIVE RowVectorFields(_, _, _)
RowVectorFields(rowVector, rowType, column) ==
    IF column > Len(rowVector) THEN <<>>
    ELSE [k \in 1..Len(rowVector[column]) |->
             Literal(toSubstraitType(rowType[column].type),
                     rowVector[column][k])]
         \o RowVectorFields(rowVector, rowType, column + 1)

\* VeloxToSubstraitTypeConvertor::toSubstraitNamedStruct
toSubstraitNamedStruct(rowType) ==
    [i \in 1..Len(rowType) |->
        Column(rowType[i].name, toSubstraitType(rowType[i].type))]

\* toSubstrait(arena, valuesNode, readRel)
toSubstraitValuesNode(collector, valuesNode) ==
    RelConverted(
        [rel |-> "read",
         hasVirtualTable |-> TRUE,
         values |-> [row \in 1..Len(valuesNode.values) |->
                        RowVectorFields(valuesNode.values[row],
                                        valuesNode.outputType, 1)],
         hasBaseSchema |-> TRUE,
         baseSchema |-> toSubstraitNamedStruct(valuesNode.outputType),
         hasFilter |-> FALSE,
         filter |-> NotSet,
         hasLocalFiles |-> FALSE],
        collector)

RECURSIVE toSubstraitRel(_, _, _), toSubstraitFilterNode(_, _, _)
RECURSIVE toSubstraitProjectNode(_, _, _), toSubstraitAggregationNode(_, _, _)
RECURSIVE toSubstraitJoinNode(_, _, _)
RECURSIVE ConvertAggregateArguments(_, _, _, _, _), ConvertMeasures(_, _, _, _, _)
RECURSIVE ConvertAggregateArgumentsAfter(_, _, _, _, _)
RECURSIVE MeasureOfArguments(_, _, _, _, _, _), MeasureOfFilter(_, _, _, _, _)

\* A Filter conversion that emits the source relation alone and leaves the
\* condition out.
toSubstraitFilterNode_DropsCondition(catalog, collector, filterNode) ==
    toSubstraitRel(catalog, collector, filterNode.sources[1])

\* toSubstrait(arena, filterNode, filterRel)
toSubstraitFilterNode(catalog, collector, filterNode) ==
    IF Len(filterNode.sources) # 1 THEN RelThrown(collector)
    ELSE LET source == filterNode.sources[1]
             filterInput == toSubstraitRel(catalog, collector, source)
         IN  IF ~filterInput.ok THEN RelThrown(filterInput.collector)
             ELSE LET condition == toSubstraitExpr(catalog,
                                       filterInput.collector,
                                       filterNode.filter, outputType(source))
                  IN  IF ~condition.ok THEN RelThrown(condition.collector)
                      ELSE RelConverted(
                              [rel |-> "filter", input |-> filterInput.rel,
                               condition |-> condition.expr],
                              condition.collector)

\* A Project conversion whose output mapping counts from 0 and not from the
\* number of input columns.
toSubstraitProjectNode_MapsFromZero(catalog, collector, projectNode) ==
    IF Len(projectNode.sources) # 1 THEN RelThrown(collector)
    ELSE LET source == projectNode.sources[1]
             projectRelInput == toSubstraitRel(catalog, collector, source)
             inputType == outputType(source)
         IN  IF ~projectRelInput.ok THEN RelThrown(projectRelInput.collector)
             ELSE LET expressions == ConvertInputs(catalog,
                                         projectRelInput.collector,
                                         projectNode.projections, inputType, 1)
                  IN  IF ~expressions.ok THEN RelThrown(expressions.collector)
                      ELSE RelConverted(
                              [rel |-> "project",
                               input |-> projectRelInput.rel,
                               expressions |-> expressions.exprs,
                               outputMapping |->
                                   [i \in 1..Len(projectNode.projections) |->
                                       i - 1]],
                              expressions.collector)

\* toSubstrait(arena, projectNode, projectRel)
toSubstraitProjectNode(catalog, collector, projectNode) ==
    IF Len(projectNode.sources) # 1 THEN RelThrown(collector)
    ELSE LET source == projectNode.sources[1]
             projectRelInput == toSubstraitRel(catalog, collector, source)
             inputType == outputType(source)
             inputTypeSize == Len(inputType)
         IN  IF ~projectRelInput.ok THEN RelThrown(projectRelInput.collector)
             ELSE LET expressions == ConvertInputs(catalog,
                                         projectRelInput.collector,
                                         projectNode.projections, inputType, 1)
                  IN  IF ~expressions.ok THEN RelThrown(expressions.collector)
                      ELSE RelConverted(
                              [rel |-> "project",
                               input |-> projectRelInput.rel,
                               expressions |-> expressions.exprs,
                               outputMapping |->
                                   [i \in 1..Len(projectNode.projections) |->
                                       inputTypeSize + (i - 1)]],
                              expressions.collector)

\* toSubstrait(arena, aggregateNode, aggregateRel), lines 345-354: the
\* arguments after inputs[i], given the conversion of inputs[i].
ConvertAggregateArgumentsAfter(catalog, head, inputs, inputType, i) ==
    IF ~head.ok
    THEN [ok |-> FALSE, exprs |-> <<>>, collector |-> head.collector]
    ELSE ConsInput(head, ConvertAggregateArguments(catalog, head.collector,
                                                   inputs, inputType, i + 1))

\* toSubstrait(arena, aggregateNode, aggregateRel), lines 345-354: the
\* arguments of one aggregate; a call argument is not implemented.
ConvertAggregateArguments(catalog, collector, inputs, inputType, i) ==
    IF i > Len(inputs) THEN [ok |-> TRUE, exprs |-> <<>>, collector |-> collector]
    ELSE IF inputs[i].e = "call"
    THEN [ok |-> FALSE, exprs |-> <<>>, collector |-> collector]
    ELSE ConvertAggregateArgumentsAfter(catalog,
             toSubstraitExpr(catalog, collector, inputs[i], inputType),
             inputs, inputType, i)

\* The measure loop left by an exception.
MeasuresThrown(collector) ==
    [ok |-> FALSE, measures |-> <<>>, collector |-> collector]

\* The measures so far: measure i followed by the measures after it.
ConsMeasure(aggMeasures, rest) ==
    [ok |-> rest.ok,
     measures |-> IF rest.ok THEN <<aggMeasures>> \o rest.measures ELSE <<>>,
     collector |-> rest.collector]

\* toSubstrait(arena, aggregateNode, aggregateRel), lines 356-375: measure i
\* once its mask and its arguments are converted: the function is looked
\* up, referenced, and the measure emitted with its filter always set.
MeasureOfArguments(catalog, aggFilter, arguments, aggregateNode, inputType, i) ==
    LET aggregatesExpr == aggregateNode.aggregates[i]
        aggregateFunctionOption ==
            lookupFunction(catalog.aggregateFunctionVariants, TRUE,
                           toSubstraitSignature(aggregatesExpr))
    IN
    IF ~arguments.ok THEN MeasuresThrown(arguments.collector)
    ELSE IF aggregateFunctionOption = <<>>
    THEN MeasuresThrown(arguments.collector)
    ELSE
    LET reference == getFunctionReference(arguments.collector,
                                          aggregateFunctionOption[1])
    IN  ConsMeasure(
            [hasFilter |-> TRUE,
             filter |-> aggFilter.expr,
             measure |-> [functionReference |-> reference.anchor,
                          arguments |-> arguments.exprs,
                          outputType |-> toSubstraitType(aggregatesExpr.type),
                          phase |-> toAggregationPhase(aggregateNode.step)]],
            ConvertMeasures(catalog, reference.collector, aggregateNode,
                            inputType, i + 1))

\* toSubstrait(arena, aggregateNode, aggregateRel), lines 345-354: measure i
\* once its mask is converted: its arguments are converted next.
MeasureOfFilter(catalog, aggFilter, aggregateNode, inputType, i) ==
    IF ~aggFilter.ok THEN MeasuresThrown(aggFilter.collector)
    ELSE MeasureOfArguments(catalog, aggFilter,
             ConvertAggregateArguments(catalog, aggFilter.collector,
                 aggregateNode.aggregates[i].inputs, inputType, 1),
             aggregateNode, inputType, i)

\* toSubstrait(arena, aggregateNode, aggregateRel), lines 320-375: measure i
\* and the measures after it.  aggregateMasks.at(i) throws when the mask
\* list has no position i.
ConvertMeasures(catalog, collector, aggregateNode, inputType, i) ==
    IF i > Len(aggregateNode.aggregates)
    THEN [ok |-> TRUE, measures |-> <<>>, collector |-> collector]
    ELSE IF i > Len(aggregateNode.aggregateMasks) THEN MeasuresThrown(collector)
    ELSE MeasureOfFilter(catalog,
             IF aggregateNode.aggregateMasks[i] # NullExpr
             THEN toSubstraitExpr(catalog, collector,
                                  aggregateNode.aggregateMasks[i], inputType)
             ELSE Converted(NotSet, collector),
             aggregateNode, inputType, i)

\* toSubstrait(arena, aggregateNode, aggregateRel)
toSubstraitAggregationNode(catalog, collector, aggregateNode) ==
    IF Len(aggregateNode.sources) # 1 THEN RelThrown(collector)
    ELSE
    LET source == aggregateNode.sources[1]
        input == toSubstraitRel(catalog, collector, source)
        inputType == outputType(source)
    IN
    IF ~input.ok THEN RelThrown(input.collector)
    ELSE
    LET aggGroupings == ConvertInputs(catalog, input.collector,
                            aggregateNode.groupingKeys, inputType, 1)
    IN
    IF ~aggGroupings.ok THEN RelThrown(aggGroupings.collector)
    ELSE IF ~(Len(aggregateNode.aggregates) >= Len(aggregateNode.aggregateMasks))
    THEN RelThrown(aggGroupings.collector)
    ELSE
    LET measures == ConvertMeasures(catalog, aggGroupings.collector,
                                    aggregateNode, inputType, 1)
    IN  IF ~measures.ok THEN RelThrown(measures.collector)
        ELSE RelConverted(
                [rel |-> "aggregate", input |-> input.rel,
                 groupings |-> << aggGroupings.exprs >>,
                 measures |-> measures.measures],
                measures.collector)

\* A join conversion that converts the two inputs before it looks at the
\* join type.
toSubstraitJoinNode_ChecksTypeLast(catalog, collector, joinNode) ==
    IF Len(joinNode.sources) # 2 THEN RelThrown(collector)
    ELSE
    LET left == toSubstraitRel(catalog, collector, joinNode.sources[1])
    IN
    IF ~left.ok THEN RelThrown(left.collector)
    ELSE
    LET right == toSubstraitRel(catalog, left.collector, joinNode.sources[2])
        joinCondition == [i \in 1..Len(joinNode.leftKeys) |->
                             Call("eq", <<joinNode.leftKeys[i],
                                          joinNode.rightKeys[i]>>, "BOOLEAN")]
    IN
    IF ~right.ok \/ ~checkForSupportJoinType(joinNode)
    THEN RelThrown(right.collector)
    ELSE
    LET expression == toSubstraitExpr(catalog, right.collector,
                          IF Len(joinCondition) = 1 THEN joinCondition[1]
                          ELSE Call("and", joinCondition, "BOOLEAN"),
                          mergeRowTypes(outputType(joinNode.sources[1]),
                                        outputType(joinNode.sources[2])))
    IN  IF ~expression.ok THEN RelThrown(expression.collector)
        ELSE RelConverted(
                [rel |-> "join", left |-> left.rel, right |-> right.rel,
                 type |-> "JOIN_TYPE_INNER", expression |-> expression.expr,
                 hasPostJoinFilter |-> FALSE, postJoinFilter |-> NotSet],
                expression.collector)

\* toSubstrait(arena, joinNode, joinRel)
toSubstraitJoinNode(catalog, collector, joinNode) ==
    IF Len(joinNode.sources) # 2 THEN RelThrown(collector)
    ELSE IF ~checkForSupportJoinType(joinNode) THEN RelThrown(collector)
    ELSE
    LET left == toSubstraitRel(catalog, collector, joinNode.sources[1])
    IN
    IF ~left.ok THEN RelThrown(left.collector)
    ELSE
    LET right == toSubstraitRel(catalog, left.collector, joinNode.sources[2])
        numColumns == Len(joinNode.leftKeys)
        equalities == [i \in 1..numColumns |->
                          Call("eq", <<joinNode.leftKeys[i],
                                       joinNode.rightKeys[i]>>, "BOOLEAN")]
        joinCondition == IF joinNode.filter # NullExpr
                         THEN Append(equalities, joinNode.filter)
                         ELSE equalities
        joinConditionExpr == IF Len(joinCondition) = 1 THEN joinCondition[1]
                             ELSE Call("and", joinCondition, "BOOLEAN")
    IN
    IF ~right.ok THEN RelThrown(right.collector)
    ELSE
    LET expression == toSubstraitExpr(catalog, right.collector,
                          joinConditionExpr,
                          mergeRowTypes(outputType(joinNode.sources[1]),
                                        outputType(joinNode.sources[2])))
    IN  IF ~expression.ok THEN RelThrown(expression.collector)
        ELSE RelConverted(
                [rel |-> "join", left |-> left.rel, right |-> right.rel,
                 type |-> "JOIN_TYPE_INNER", expression |-> expression.expr,
                 hasPostJoinFilter |-> FALSE, postJoinFilter |-> NotSet],
                expression.collector)

\* toSubstrait(arena, planNode, rel): the first matching node kind converts
\* the node; a node of no listed kind leaves the Rel as it was, unset.
toSubstraitRel(catalog, collector, planNode) ==
    IF planNode.node = "Filter"
    THEN toSubstraitFilterNode(catalog, collector, planNode)
    ELSE IF planNode.node = "Values"
    THEN toSubstraitValuesNode(collector, planNode)
    ELSE IF planNode.node = "Project"
    THEN toSubstraitProjectNode(catalog, collector, planNode)
    ELSE IF planNode.node = "Aggregation"
    THEN toSubstraitAggregationNode(catalog, collector, planNode)
    ELSE IF planNode.node = "HashJoin"
    THEN toSubstraitJoinNode(catalog, collector, planNode)
    ELSE RelConverted(EmptyRel, collector)

\* A Plan that was never produced.
NoPlan == [relations |-> <<>>, extensions |-> <<>>]

\* toSubstrait(arena, plan), once the plan node is converted: the root
\* relation, the extension declarations of the collector, and the names of
\* the plan's output columns.
PlanOver(input, plan) ==
    IF ~input.ok
    THEN [ok |-> FALSE, plan |-> NoPlan, collector |-> input.collector]
    ELSE [ok |-> TRUE,
          plan |-> [relations |->
                        << [root |-> [input |-> input.rel,
                                      names |-> [i \in 1..Len(outputType(plan)) |->
                                                    outputType(plan)[i].name]]] >>,
                    extensions |-> addExtensionToPlan(input.collector)],
          collector |-> input.collector]

\* toSubstrait(arena, plan)
toSubstrait(catalog, collector, plan) ==
    PlanOver(toSubstraitRel(catalog, collector, plan), plan)

----------------------------------------------------------------------------
(* Inbound plan conversion.                                                *)

\* The members of SubstraitVeloxPlanConverter a conversion reads and writes
\* are the record st: functionMap_, planNodeId_ and splitInfoMap_.

\* A plan node pointer that was never set.
NoNode == [node |-> "none"]

\* The outcome of an inbound conversion that throws, and of one that
\* returns a node.
NodeThrown(st) == [ok |-> FALSE, node |-> NoNode, st |-> st]
NodeBuilt(node, st) == [ok |-> TRUE, node |-> node, st |-> st]

\* An id source that returns the counter and leaves it as it is.
nextPlanNodeId_KeepsCounter(st) ==
    [id |-> ToString(st.planNodeId_), st |-> st]

\* SubstraitVeloxPlanConverter::nextPlanNodeId
nextPlanNodeId(st) ==
    [id |-> ToString(st.planNodeId_),
     st |-> [st EXCEPT !.planNodeId_ = @ + 1]]

\* SubstraitParser::makeNodeName
makeNodeName(nodeId, colIdx) ==
    "n" \o ToString(nodeId) \o "_" \o ToString(colIdx)

\* SubstraitParser::findVeloxFunction: the name before the delimiter of the
\* function spec, mapped to the Velox name where the names differ.
findVeloxFunction(fmap, id) ==
    LET name == getNameBeforeDelimiter(findFunctionSpec(fmap, id), ":")[1]
    IN  IF name = "add" THEN "plus" ELSE name

\* SubstraitVeloxExprConverter::toVeloxExpr: [ok, expr].  Field addressing
\* is by index into inputType; a function reference is resolved through the
\* plan's function map.
RECURSIVE toVeloxExpr(_, _, _)
toVeloxExpr(fmap, sExpr, inputType) ==
    LET Fails == [ok |-> FALSE, expr |-> NullExpr]
    IN
    IF sExpr.rex = "selection"
    THEN IF sExpr.idx + 1 \in 1..Len(inputType)
         THEN [ok |-> TRUE,
               expr |-> FieldAccess(inputType[sExpr.idx + 1].name,
                                    inputType[sExpr.idx + 1].type)]
         ELSE Fails
    ELSE IF sExpr.rex = "literal"
    THEN [ok |-> TRUE, expr |-> Constant(toVeloxType(sExpr.lit), sExpr.val)]
    ELSE IF sExpr.rex = "scalarFunction"
    THEN LET args == [i \in 1..Len(sExpr.args) |->
                         toVeloxExpr(fmap, sExpr.args[i], inputType)]
         IN  IF sExpr.ref \notin DOMAIN fmap THEN Fails
             ELSE IF \E i \in 1..Len(args) : ~args[i].ok THEN Fails
             ELSE [ok |-> TRUE,
                   expr |-> Call(findVeloxFunction(fmap, sExpr.ref),
                                 [i \in 1..Len(args) |-> args[i].expr],
                                 toVeloxType(sExpr.outputType))]
    ELSE IF sExpr.rex = "ifThen"
    THEN LET ifs == [i \in 1..Len(sExpr.ifs) |->
                        toVeloxExpr(fmap, sExpr.ifs[i].if_, inputType)]
             thens == [i \in 1..Len(sExpr.ifs) |->
                          toVeloxExpr(fmap, sExpr.ifs[i].then_, inputType)]
             else == toVeloxExpr(fmap, sExpr.else_, inputType)
         IN  IF \/ ~else.ok
                \/ \E i \in 1..Len(ifs) : ~ifs[i].ok \/ ~thens[i].ok
             THEN Fails
             ELSE [ok |-> TRUE,
                   expr |-> Call("if",
                                 [k \in 1..(2 * Len(ifs) + 1) |->
                                     IF k = 2 * Len(ifs) + 1 THEN else.expr
                                     ELSE IF k % 2 = 1
                                     THEN ifs[(k + 1) \div 2].expr
                                     ELSE thens[k \div 2].expr],
                                 else.expr.type)]
    ELSE Fails

\* toVeloxExpr on every expression of a list: [ok, exprs].
toVeloxExprs(fmap, sExprs, inputType) ==
    LET results == [i \in 1..Len(sExprs) |->
                       toVeloxExpr(fmap, sExprs[i], inputType)]
    IN  [ok |-> \A i \in 1..Len(results) : results[i].ok,
         exprs |-> [i \in 1..Len(results) |-> results[i].expr]]

\* A step selection that reads the phase of the last measure.
toAggregationStep_UsesLastMeasure(sAgg) ==
    IF Len(sAgg.measures) = 0 THEN [ok |-> TRUE, step |-> "kSingle"]
    ELSE LET phase == sAgg.measures[Len(sAgg.measures)].measure.phase
         IN  CASE phase = "INITIAL_TO_INTERMEDIATE" ->
                      [ok |-> TRUE, step |-> "kPartial"]
               [] phase = "INTERMEDIATE_TO_INTERMEDIATE" ->
                      [ok |-> TRUE, step |-> "kIntermediate"]
               [] phase = "INTERMEDIATE_TO_RESULT" ->
                      [ok |-> TRUE, step |-> "kFinal"]
               [] phase = "INITIAL_TO_RESULT" ->
                      [ok |-> TRUE, step |-> "kSingle"]
               [] OTHER -> [ok |-> FALSE, step |-> "kSingle"]

\* toAggregationStep: [ok, step]
toAggregationStep(sAgg) ==
    IF Len(sAgg.measures) = 0 THEN [ok |-> TRUE, step |-> "kSingle"]
    ELSE LET phase == sAgg.measures[1].measure.phase
         IN  CASE phase = "INITIAL_TO_INTERMEDIATE" ->
                      [ok |-> TRUE, step |-> "kPartial"]
               [] phase = "INTERMEDIATE_TO_INTERMEDIATE" ->
                      [ok |-> TRUE, step |-> "kIntermediate"]
               [] phase = "INTERMEDIATE_TO_RESULT" ->
                      [ok |-> TRUE, step |-> "kFinal"]
               [] phase = "INITIAL_TO_RESULT" ->
                      [ok |-> TRUE, step |-> "kSingle"]
               [] OTHER -> [ok |-> FALSE, step |-> "kSingle"]

\* join::fromProto: [ok, joinType]
fromProto(type) ==
    CASE type = "JOIN_TYPE_INNER" -> [ok |-> TRUE, joinType |-> "kInner"]
      [] type = "JOIN_TYPE_OUTER" -> [ok |-> TRUE, joinType |-> "kFull"]
      [] type = "JOIN_TYPE_LEFT" -> [ok |-> TRUE, joinType |-> "kLeft"]
      [] type = "JOIN_TYPE_RIGHT" -> [ok |-> TRUE, joinType |-> "kRight"]
      [] type = "JOIN_TYPE_LEFT_SEMI" -> [ok |-> TRUE, joinType |-> "kLeftSemi"]
      [] type = "JOIN_TYPE_RIGHT_SEMI" -> [ok |-> TRUE, joinType |-> "kRightSemi"]
      [] OTHER -> [ok |-> FALSE, joinType |-> "kInner"]

\* RowType::unionWith
unionWith(leftType, rightType) == leftType \o rightType

\* toVeloxPlan(AggregateRel), lines 77-90: the masks pushed for the
\* measures, one for every measure that has a filter.
RECURSIVE AggregateMasks(_, _, _, _)
AggregateMasks(fmap, measures, inputType, i) ==
    IF i > Len(measures) THEN [ok |-> TRUE, masks |-> <<>>]
    ELSE LET rest == AggregateMasks(fmap, measures, inputType, i + 1)
             measure == measures[i]
         IN  IF ~measure.hasFilter THEN rest
             ELSE IF measure.filter = NotSet
             THEN [ok |-> rest.ok, masks |-> <<NullExpr>> \o rest.masks]
             ELSE LET mask == toVeloxExpr(fmap, measure.filter, inputType)
                  IN  IF ~mask.ok THEN [ok |-> FALSE, masks |-> <<>>]
                      ELSE [ok |-> rest.ok,
                            masks |-> << IF mask.expr.e = "field"
                                         THEN mask.expr ELSE NullExpr >>
                                      \o rest.masks]

\* toVeloxPlan(AggregateRel), lines 92-105: the aggregate call of a measure.
AggregateCall(fmap, aggFunction, inputType) ==
    LET aggParams == toVeloxExprs(fmap, aggFunction.arguments, inputType)
    IN  IF aggFunction.functionReference \notin DOMAIN fmap \/ ~aggParams.ok
        THEN [ok |-> FALSE, expr |-> NullExpr]
        ELSE [ok |-> TRUE,
              expr |-> Call(findVeloxFunction(fmap,
                                              aggFunction.functionReference),
                            aggParams.exprs,
                            toVeloxType(aggFunction.outputType))]

\* The FilterInfo loop of toVeloxFilter is fatal for the filter: it does not
\* flatten, or a leaf has an argument that is neither a field nor a literal,
\* or a function that is not a range function.
FilterIsFatal(fmap, sFilter) ==
    LET flat == flattenConditions(fmap, sFilter)
    IN  \/ ~flat.ok
        \/ \E k \in 1..Len(flat.leaves) :
              \/ \E i \in 1..Len(flat.leaves[k].args) :
                    flat.leaves[k].args[i].rex \notin {"selection", "literal"}
              \/ getNameBeforeDelimiter(
                     findFunctionSpec(fmap, flat.leaves[k].ref), ":")
                 \notin FilterNames

\* toVeloxPlan(ReadRel, RowTypePtr): the Values node of a virtual table.
\* batchSize comes from the last struct; every struct must hold
\* batchSize * numColumns fields.
toVeloxValues(st, readRel, type) ==
    LET numVectors == Len(readRel.values)
        numColumns == Len(type)
    IN
    IF numVectors = 0
    THEN \* values(numVectors - 1) reads outside the list: the conversion
         \* aborts.
         NodeThrown(st)
    ELSE
    LET valueFieldNums == Len(readRel.values[numVectors])
        batchSize == IF numColumns = 0 THEN 1
                     ELSE valueFieldNums \div numColumns
        next == nextPlanNodeId(st)
    IN  IF \E index \in 1..numVectors :
               Len(readRel.values[index]) # batchSize * numColumns
        THEN NodeThrown(st)
        ELSE NodeBuilt(
                ValuesNode(next.id, type,
                    [index \in 1..numVectors |->
                        [col \in 1..numColumns |->
                            [batchId \in 1..batchSize |->
                                readRel.values[index]
                                    [(col - 1) * batchSize + batchId].val]]]),
                next.st)

\* toVeloxPlan(ReadRel, splitInfo)
toVeloxRead(st, readRel) ==
    LET colNameList == IF readRel.hasBaseSchema
                       THEN [i \in 1..Len(readRel.baseSchema) |->
                                readRel.baseSchema[i].name]
                       ELSE <<>>
        veloxTypeList == IF readRel.hasBaseSchema
                         THEN [i \in 1..Len(readRel.baseSchema) |->
                                  toVeloxType(readRel.baseSchema[i].type)]
                         ELSE <<>>
        rowType == [idx \in 1..Len(colNameList) |->
                       Column(makeNodeName(st.planNodeId_, idx - 1),
                              veloxTypeList[idx])]
        next == nextPlanNodeId(st)
    IN  IF readRel.hasFilter /\ FilterIsFatal(st.functionMap_, readRel.filter)
        THEN NodeThrown(st)
        ELSE IF readRel.hasVirtualTable
        THEN toVeloxValues(st, readRel, rowType)
        ELSE NodeBuilt(TableScanNode(next.id, rowType), next.st)

RECURSIVE toVeloxPlanRel(_, _), toVeloxAggregate(_, _), toVeloxProject(_, _)
RECURSIVE toVeloxSort(_, _), toVeloxFilterRel(_, _), toVeloxFetch(_, _)
RECURSIVE toVeloxJoin(_, _), JoinOverLeft(_, _)

\* toVeloxPlan(AggregateRel), lines 58-131, once the input is converted.
AggregateOver(child, aggRel) ==
    IF ~child.ok THEN NodeThrown(child.st)
    ELSE
    LET fmap == child.st.functionMap_
        aggStep == toAggregationStep(aggRel)
        inputType == outputType(child.node)
        groupingExprs == IF Len(aggRel.groupings) = 0 THEN <<>>
                         ELSE aggRel.groupings[1]
        veloxGroupingExprs == toVeloxExprs(fmap, groupingExprs, inputType)
        aggregateMasks == AggregateMasks(fmap, aggRel.measures, inputType, 1)
        aggExprs == [i \in 1..Len(aggRel.measures) |->
                        AggregateCall(fmap, aggRel.measures[i].measure,
                                      inputType)]
        aggOutNames == [i \in 1..Len(aggRel.measures) |->
                           makeNodeName(child.st.planNodeId_,
                                        Len(groupingExprs) + i - 1)]
        next == nextPlanNodeId(child.st)
    IN  IF \/ ~aggStep.ok
           \/ \E i \in 1..Len(groupingExprs) :
                 groupingExprs[i].rex # "selection"
           \/ ~veloxGroupingExprs.ok
           \/ ~aggregateMasks.ok
           \/ \E i \in 1..Len(aggExprs) : ~aggExprs[i].ok
        THEN NodeThrown(child.st)
        ELSE NodeBuilt(
                AggregationNode(next.id, aggStep.step,
                    veloxGroupingExprs.exprs, aggOutNames,
                    [i \in 1..Len(aggExprs) |-> aggExprs[i].expr],
                    aggregateMasks.masks, child.node),
                next.st)

\* toVeloxPlan(AggregateRel)
toVeloxAggregate(st, aggRel) ==
    IF aggRel.input = AbsentRel THEN NodeThrown(st)
    ELSE AggregateOver(toVeloxPlanRel(st, aggRel.input), aggRel)

\* toVeloxPlan(ProjectRel), once the input is converted.
ProjectOver(child, projectRel) ==
    IF ~child.ok THEN NodeThrown(child.st)
    ELSE
    LET expressions == toVeloxExprs(child.st.functionMap_,
                                    projectRel.expressions,
                                    outputType(child.node))
        projectNames == [i \in 1..Len(projectRel.expressions) |->
                            makeNodeName(child.st.planNodeId_, i - 1)]
        next == nextPlanNodeId(child.st)
    IN  IF ~expressions.ok THEN NodeThrown(child.st)
        ELSE NodeBuilt(ProjectNode(next.id, projectNames, expressions.exprs,
                                   child.node),
                       next.st)

\* toVeloxPlan(ProjectRel)
toVeloxProject(st, projectRel) ==
    IF projectRel.input = AbsentRel THEN NodeThrown(st)
    ELSE ProjectOver(toVeloxPlanRel(st, projectRel.input), projectRel)

\* A mapping of sort directions that exchanges the two nulls placements of
\* the descending directions.
toSortOrder_SwapsDescendingNulls(direction) ==
    CASE direction = "ASC_NULLS_FIRST" -> << "kAscNullsFirst" >>
      [] direction = "ASC_NULLS_LAST" -> << "kAscNullsLast" >>
      [] direction = "DESC_NULLS_FIRST" -> << "kDescNullsLast" >>
      [] direction = "DESC_NULLS_LAST" -> << "kDescNullsFirst" >>
      [] OTHER -> <<>>

\* The SortOrder of a sort direction, <<>> for a direction that is not one
\* of the four.
toSortOrder(direction) ==
    CASE direction = "ASC_NULLS_FIRST" -> << "kAscNullsFirst" >>
      [] direction = "ASC_NULLS_LAST" -> << "kAscNullsLast" >>
      [] direction = "DESC_NULLS_FIRST" -> << "kDescNullsFirst" >>
      [] direction = "DESC_NULLS_LAST" -> << "kDescNullsLast" >>
      [] OTHER -> <<>>

\* toVeloxPlan(SortRel), once the input is converted.
SortOver(child, sortRel) ==
    IF ~child.ok THEN NodeThrown(child.st)
    ELSE
    LET sorts == sortRel.sorts
        withExpr == SelectSeq(sorts, LAMBDA sort : sort.hasExpr)
        expressions == toVeloxExprs(child.st.functionMap_,
                                    [i \in 1..Len(withExpr) |-> withExpr[i].expr],
                                    outputType(child.node))
        next == nextPlanNodeId(child.st)
    IN  IF \/ \E i \in 1..Len(sorts) : toSortOrder(sorts[i].direction) = <<>>
           \/ ~expressions.ok
           \/ \E i \in 1..Len(expressions.exprs) :
                 expressions.exprs[i].e # "field"
        THEN NodeThrown(child.st)
        ELSE NodeBuilt(
                OrderByNode(next.id, expressions.exprs,
                    [i \in 1..Len(sorts) |-> toSortOrder(sorts[i].direction)[1]],
                    child.node),
                next.st)

\* toVeloxPlan(SortRel)
toVeloxSort(st, sortRel) ==
    IF sortRel.input = AbsentRel THEN NodeThrown(st)
    ELSE SortOver(toVeloxPlanRel(st, sortRel.input), sortRel)

\* toVeloxPlan(FilterRel), once the input is converted.
FilterOver(child, filterRel) ==
    IF ~child.ok THEN NodeThrown(child.st)
    ELSE
    \* the node id is taken before the condition is converted
    LET next == nextPlanNodeId(child.st)
        condition == toVeloxExpr(child.st.functionMap_, filterRel.condition,
                                 outputType(child.node))
    IN  IF ~condition.ok THEN NodeThrown(next.st)
        ELSE NodeBuilt(FilterNode(next.id, condition.expr, child.node),
                       next.st)

\* toVeloxPlan(FilterRel)
toVeloxFilterRel(st, filterRel) ==
    IF filterRel.input = AbsentRel THEN NodeThrown(st)
    ELSE FilterOver(toVeloxPlanRel(st, filterRel.input), filterRel)

\* toVeloxPlan(FetchRel), once the input is converted.
FetchOver(child, fetchRel) ==
    LET next == nextPlanNodeId(child.st)
    IN  IF ~child.ok THEN NodeThrown(child.st)
        ELSE NodeBuilt(LimitNode(next.id, fetchRel.offset, fetchRel.count,
                                 child.node),
                       next.st)

\* toVeloxPlan(FetchRel)
toVeloxFetch(st, fetchRel) ==
    IF fetchRel.input = AbsentRel THEN NodeThrown(st)
    ELSE FetchOver(toVeloxPlanRel(st, fetchRel.input), fetchRel)

\* toVeloxPlan(JoinRel), lines 735-782, once both inputs are converted.
JoinOver(leftNode, rightNode, sJoin) ==
    IF ~rightNode.ok THEN NodeThrown(rightNode.st)
    ELSE
    LET fmap == rightNode.st.functionMap_
        bothTypes == unionWith(outputType(leftNode.node),
                               outputType(rightNode.node))
        joinType == fromProto(sJoin.type)
        outputRowType ==
            IF joinType.joinType = "kLeftSemi" THEN outputType(leftNode.node)
            ELSE IF joinType.joinType = "kRightSemi"
            THEN outputType(rightNode.node)
            ELSE bothTypes
        keys == extractJoinKeys(fmap, sJoin.expression)
        leftKeys == toVeloxExprs(fmap, keys.leftExprs, bothTypes)
        rightKeys == toVeloxExprs(fmap, keys.rightExprs, bothTypes)
        filter == IF sJoin.hasPostJoinFilter
                  THEN toVeloxExpr(fmap, sJoin.postJoinFilter, bothTypes)
                  ELSE [ok |-> TRUE, expr |-> NullExpr]
        next == nextPlanNodeId(rightNode.st)
    IN  IF \/ ~joinType.ok
           \/ keys.status = "fatal"
           \/ ~leftKeys.ok
           \/ ~rightKeys.ok
           \/ ~filter.ok
        THEN NodeThrown(rightNode.st)
        ELSE NodeBuilt(
                HashJoinNode(next.id, joinType.joinType, leftKeys.exprs,
                             rightKeys.exprs, filter.expr, leftNode.node,
                             rightNode.node, outputRowType),
                next.st)

\* toVeloxPlan(JoinRel), once the left input is converted: the right input
\* is converted next.
JoinOverLeft(leftNode, sJoin) ==
    IF ~leftNode.ok THEN NodeThrown(leftNode.st)
    ELSE JoinOver(leftNode, toVeloxPlanRel(leftNode.st, sJoin.right), sJoin)

\* toVeloxPlan(JoinRel)
toVeloxJoin(st, sJoin) ==
    IF sJoin.left = AbsentRel THEN NodeThrown(st)
    ELSE IF sJoin.right = AbsentRel THEN NodeThrown(st)
    ELSE JoinOverLeft(toVeloxPlanRel(st, sJoin.left), sJoin)

\* toVeloxPlan(Rel): the first relation kind that is set converts the Rel;
\* a Read also records its split info under the id of the new node.
toVeloxPlanRel(st, rel) ==
    IF rel.rel = "aggregate" THEN toVeloxAggregate(st, rel)
    ELSE IF rel.rel = "project" THEN toVeloxProject(st, rel)
    ELSE IF rel.rel = "filter" THEN toVeloxFilterRel(st, rel)
    ELSE IF rel.rel = "read"
    THEN LET planNode == toVeloxRead(st, rel)
         IN  IF ~planNode.ok THEN planNode
             ELSE NodeBuilt(planNode.node,
                     [planNode.st EXCEPT !.splitInfoMap_ =
                         (planNode.node.id :> "splitInfo") @@ @])
    ELSE IF rel.rel = "join" THEN toVeloxJoin(st, rel)
    ELSE IF rel.rel = "fetch" THEN toVeloxFetch(st, rel)
    ELSE IF rel.rel = "sort" THEN toVeloxSort(st, rel)
    ELSE \* VELOX_NYI("Substrait conversion not supported for Rel.")
         NodeThrown(st)

\* constructFunctionMap: every extension function of the plan is written
\* into functionMap_ under its anchor; nothing is removed.
RECURSIVE constructFunctionMap(_, _, _)
constructFunctionMap(fmap, extensions, i) ==
    IF i > Len(extensions) THEN fmap
    ELSE constructFunctionMap(
             (extensions[i].functionAnchor :> extensions[i].name)
                 @@ [id \in DOMAIN fmap \ {extensions[i].functionAnchor} |->
                        fmap[id]],
             extensions, i + 1)

\* ::substrait::PlanRel: the member of the oneof rel_type that is set is the
\* field of the record; a PlanRel with no member set has neither field.
PlanRelNotSet == [relType |-> "REL_TYPE_NOT_SET"]
has_root(planRel) == "root" \in DOMAIN planRel
has_rel(planRel) == "rel" \in DOMAIN planRel

\* toVeloxPlan(RelRoot)
toVeloxRoot(st, root) ==
    IF root.input = AbsentRel THEN NodeThrown(st)
    ELSE toVeloxPlanRel(st, root.input)

\* A conversion of a plan that converts the first relation of any plan that
\* has one.
toVeloxPlan_ConvertsFirstRelation(st, substraitPlan) ==
    LET withMap == [st EXCEPT !.functionMap_ =
                        constructFunctionMap(@, substraitPlan.extensions, 1)]
    IN  IF Len(substraitPlan.relations) = 0 THEN NodeThrown(withMap)
        ELSE IF has_root(substraitPlan.relations[1])
        THEN toVeloxRoot(withMap, substraitPlan.relations[1].root)
        ELSE IF has_rel(substraitPlan.relations[1])
        THEN toVeloxPlanRel(withMap, substraitPlan.relations[1].rel)
        ELSE NodeThrown(withMap)

\* toVeloxPlan(Plan): the extensions of the generated plans declare
\* functions only, so checkTypeExtension holds of them.
toVeloxPlan(st, substraitPlan) ==
    LET withMap == [st EXCEPT !.functionMap_ =
                        constructFunctionMap(@, substraitPlan.extensions, 1)]
    IN  IF Len(substraitPlan.relations) # 1 THEN NodeThrown(withMap)
        ELSE IF has_root(substraitPlan.relations[1])
        THEN toVeloxRoot(withMap, substraitPlan.relations[1].root)
        ELSE IF has_rel(substraitPlan.relations[1])
        THEN toVeloxPlanRel(withMap, substraitPlan.relations[1].rel)
        ELSE \* VELOX_FAIL("RelRoot or Rel is expected in Plan.")
             NodeThrown(withMap)

----------------------------------------------------------------------------
(* Outbound conversion calls and the round trip.                           *)

\* SubstraitExtension: the scalar and the aggregate function variants.
OnlyAddExtension ==
    [scalarFunctionVariants |-> << ScalarVariant("add", <<"i32", "i32">>, "i32") >>,
     aggregateFunctionVariants |-> <<>>]
FullExtension ==
    [scalarFunctionVariants |->
        << ScalarVariant("add", <<"i32", "i32">>, "i32"),
           ScalarVariant("gte", <<"any1", "any1">>, "bool"),
           ScalarVariant("and", <<"bool", "bool">>, "bool"),
           ScalarVariant("eq", <<"any1", "any1">>, "bool") >>,
     aggregateFunctionVariants |->
        << AggregateVariant("sum", <<"i32">>, "i64", <<"i64">>),
           AggregateVariant("sum", <<"fp64">>, "fp64", <<"fp64">>) >>]
Extensions == {OnlyAddExtension, FullExtension}

\* The first output column of a plan as a field access.
FirstColumn(planNode) ==
    FieldAccess(outputType(planNode)[1].name, outputType(planNode)[1].type)

GteCall(field, value) ==
    Call("gte", <<field, Constant(field.type, value)>>, "BOOLEAN")

\* The leaves of the generated plans.
ValuesX ==
    ValuesNode("0", << Column("x", "INTEGER") >>, << << <<1, 7>> >> >>)
ValuesY ==
    ValuesNode("0", << Column("y", "INTEGER"), Column("z", "DOUBLE") >>,
               << << <<4>>, <<2>> >> >>)
TableScanT == TableScanNode("0", << Column("t", "INTEGER") >>)
LeafPlans == {ValuesX, ValuesY, TableScanT}

\* The single-input nodes generated over a plan.
UnaryOver(source) ==
    LET c == FirstColumn(source)
    IN  { FilterNode("0", GteCall(c, 5), source),
          FilterNode("0", Call("and", <<GteCall(c, 5), GteCall(c, 3)>>,
                               "BOOLEAN"), source),
          ProjectNode("0", <<"p0">>, << Call("plus", <<c, c>>, c.type) >>,
                      source),
          ProjectNode("0", <<"p0">>,
                      << Call("if", <<GteCall(c, 5), c, Constant(c.type, 0)>>,
                              c.type) >>, source),
          AggregationNode("0", "kSingle", <<>>, <<"a0">>,
                          << Call("sum", <<c>>, "BIGINT") >>, << NullExpr >>,
                          source),
          AggregationNode("0", "kSingle", <<>>, <<"a0">>,
                          << Call("sum", <<c>>, "BIGINT") >>, <<>>, source),
          OrderByNode("0", <<c>>, << "kAscNullsLast" >>, source),
          LimitNode("0", 0, 10, source) }

ColumnNames(planNode) ==
    { outputType(planNode)[i].name : i \in 1..Len(outputType(planNode)) }

\* The hash joins generated over two plans with different column names.
JoinsOver(left, right) ==
    IF ColumnNames(left) \cap ColumnNames(right) # {} THEN {}
    ELSE { HashJoinNode("0", joinType, << FirstColumn(left) >>,
                        << FirstColumn(right) >>, NullExpr, left, right,
                        outputType(left) \o outputType(right)) :
           joinType \in {"kInner", "kLeft"} }

\* core::JoinType
JoinTypes == {"kInner", "kLeft", "kRight", "kFull"}

\* The hash joins of every join type over inputs that call functions.
JoinNodes ==
    { HashJoinNode("0", joinType, << FirstColumn(left) >>,
                   << FirstColumn(right) >>, NullExpr, left, right,
                   outputType(left) \o outputType(right)) :
      joinType \in JoinTypes,
      left \in { l \in {ValuesX} \cup UnaryOver(ValuesX) :
                 "p0" \notin ColumnNames(l) /\ "a0" \notin ColumnNames(l) },
      right \in {ValuesY} \cup UnaryOver(ValuesY) }

\* The plans of at most the given depth; a join takes inputs two levels
\* down.
RECURSIVE PlansOfDepth(_)
PlansOfDepth(depth) ==
    IF depth = 0 THEN LeafPlans
    ELSE PlansOfDepth(depth - 1)
         \cup UNION { UnaryOver(p) : p \in PlansOfDepth(depth - 1) }
         \cup (IF depth < 2 THEN {}
               ELSE UNION { JoinsOver(l, r) : l, r \in PlansOfDepth(depth - 2) })

VeloxPlans == PlansOfDepth(MaxPlanDepth)

\* The plans handed to one converter call after call.
CallPlans == {ValuesX} \cup UnaryOver(ValuesX) \cup UnaryOver(ValuesY)

\* The projected expressions over a column c: the column, a constant, calls
\* of "if" with 0..MaxIfArguments constant arguments, an "if" over a
\* comparison, calls of a function the catalogs have (plus) and of one they
\* do not have (minus), alone and with a call as argument.
IfOfConstants(n) ==
    Call("if", [i \in 1..n |-> Constant("INTEGER", i)], "INTEGER")
MinusCall(left, right) == Call("minus", <<left, right>>, right.type)
PlusCall(left, right) == Call("plus", <<left, right>>, right.type)
ProjectExprs(c) ==
    {c, Constant("INTEGER", 9)}
    \cup { IfOfConstants(n) : n \in 0..MaxIfArguments }
    \cup { Call("if", <<GteCall(c, 5), c, Constant(c.type, 0)>>, c.type),
           Call("if", <<GteCall(c, 5), MinusCall(c, c), c>>, c.type),
           PlusCall(c, c), MinusCall(c, c), MinusCall(PlusCall(c, c), c) }

\* The projections of up to MaxProjections expressions over a source.
ProjectsOver(source) ==
    { ProjectNode("0", [i \in 1..Len(projections) |-> "p" \o ToString(i - 1)],
                  projections, source) :
      projections \in UNION { [1..n -> ProjectExprs(FirstColumn(source))] :
                              n \in 0..MaxProjections } }

\* The projections handed to an outbound converter, and those handed to it
\* after the first: one expression over ValuesX.
ExprPlans ==
    UNION { ProjectsOver(source) :
            source \in {ValuesX, ValuesY,
                        FilterNode("0", GteCall(FirstColumn(ValuesX), 5),
                                   ValuesX)} }
LaterExprPlans ==
    { ProjectNode("0", <<"p0">>, <<projection>>, ValuesX) :
      projection \in ProjectExprs(FirstColumn(ValuesX)) }

NotConverted == [status |-> "idle", ok |-> FALSE, plan |-> NoPlan]
NoRoundTrip ==
    [status |-> "idle", ok |-> FALSE, node |-> NoNode, planNodeId_ |-> 0,
     splitInfoMap_ |-> <<>>]

OutIdle ==
    /\ extension = OnlyAddExtension
    /\ functionCollector_ = NewCollector
    /\ veloxPlan = NoNode
    /\ planResult = [status |-> "off", ok |-> FALSE, plan |-> NoPlan]
    /\ roundTrip = NoRoundTrip
    /\ numCalls = 0

\* VeloxToSubstraitPlanConvertor::toSubstrait(arena, plan) called on the
\* converter: the conversion works on the converter's functionCollector_.
ToSubstrait ==
    /\ planResult.status = "idle"
    /\ \E result \in {toSubstrait(extension, functionCollector_, veloxPlan)} :
           /\ planResult' = [status |-> "done", ok |-> result.ok,
                                plan |-> result.plan]
           /\ functionCollector_' = result.collector
    /\ numCalls' = numCalls + 1
    /\ UNCHANGED <<loadVars, functionMap_, joinVars, filterVars, lookupVars, extension,
                   veloxPlan, roundTrip>>

\* The caller passes another projection to the same converter.
NextExprPlan ==
    /\ planResult.status = "done"
    /\ numCalls < MaxCalls
    /\ veloxPlan' \in LaterExprPlans
    /\ planResult' = NotConverted
    /\ UNCHANGED <<loadVars, functionMap_, joinVars, filterVars, lookupVars, extension,
                   functionCollector_, roundTrip, numCalls>>

\* The caller passes another plan to the same converter.
NextPlan ==
    /\ planResult.status = "done"
    /\ numCalls < MaxCalls
    /\ veloxPlan' \in CallPlans
    /\ planResult' = NotConverted
    /\ UNCHANGED <<loadVars, functionMap_, joinVars, filterVars, lookupVars, extension,
                   functionCollector_, roundTrip, numCalls>>

\* SubstraitVeloxPlanConverter::toVeloxPlan(Plan) called on the inbound
\* converter, whose members are functionMap_ and the planNodeId_ and
\* splitInfoMap_ of roundTrip: a new converter when the plan is the one that
\* toSubstrait returned.
ToVeloxPlan ==
    /\ planResult.status = "done"
    /\ planResult.ok
    /\ roundTrip.status = "idle"
    /\ \E result \in {toVeloxPlan(
                         [functionMap_ |-> functionMap_,
                          planNodeId_ |-> roundTrip.planNodeId_,
                          splitInfoMap_ |-> roundTrip.splitInfoMap_],
                         planResult.plan)} :
           /\ roundTrip' = [status |-> "done", ok |-> result.ok,
                            node |-> result.node,
                            planNodeId_ |-> result.st.planNodeId_,
                            splitInfoMap_ |-> result.st.splitInfoMap_]
           /\ functionMap_' = result.st.functionMap_
    /\ UNCHANGED <<loadVars, joinVars, filterVars, lookupVars, extension,
                   functionCollector_, veloxPlan, planResult, numCalls>>

----------------------------------------------------------------------------
(* Substrait plans handed to the inbound converter.                        *)

\* ::substrait::ReadRel over a virtual table.
VirtualTableRead(baseSchema, values) ==
    [rel |-> "read", hasVirtualTable |-> TRUE, values |-> values,
     hasBaseSchema |-> TRUE, baseSchema |-> baseSchema,
     hasFilter |-> FALSE, filter |-> NotSet, hasLocalFiles |-> FALSE]

\* ::substrait::AggregateRel_Measure
Measure(functionReference, arguments, type, phase, hasFilter, filter) ==
    [hasFilter |-> hasFilter, filter |-> filter,
     measure |-> [functionReference |-> functionReference,
                  arguments |-> arguments, outputType |-> type,
                  phase |-> phase]]

\* ::substrait::AggregateRel with one grouping.
AggregateRel(input, groupingExprs, measures) ==
    [rel |-> "aggregate", input |-> input, groupings |-> << groupingExprs >>,
     measures |-> measures]

\* ::substrait::extensions::SimpleExtensionDeclaration of a function.
ExtensionFunction(functionAnchor, name) ==
    [functionAnchor |-> functionAnchor, uri |-> "functions.yaml",
     name |-> PlainName(name)]

\* ::substrait::Plan with one root relation.
PlanWithRoot(input, names, extensions) ==
    [relations |-> << [root |-> [input |-> input, names |-> names]] >>,
     extensions |-> extensions]

\* The read of one i32 column x with the rows 1 and 7.
ReadX ==
    VirtualTableRead(<< Column("x", "i32") >>,
                     << << Literal("i32", 1), Literal("i32", 7) >> >>)

\* core::AggregationNode::Step and ::substrait::AggregationPhase.
Steps == {"kPartial", "kIntermediate", "kSingle", "kFinal"}
Phases ==
    {"INITIAL_TO_INTERMEDIATE", "INTERMEDIATE_TO_INTERMEDIATE",
     "INITIAL_TO_RESULT", "INTERMEDIATE_TO_RESULT", "UNSPECIFIED"}

\* The aggregations of every step over the generated leaves, with one sum
\* per measure.
PhaseNodes ==
    { AggregationNode("0", step, <<>>, [i \in 1..n |-> "a" \o ToString(i)],
          [i \in 1..n |-> Call("sum", << FirstColumn(source) >>, "BIGINT")],
          [i \in 1..n |-> NullExpr], source) :
      step \in Steps, n \in 1..MaxMeasures, source \in {ValuesX, ValuesY} }

\* The aggregate relations over ReadX whose measures carry every sequence
\* of phases.
PhasePlans ==
    { PlanWithRoot(
          AggregateRel(ReadX, <<>>,
              [i \in 1..Len(phases) |->
                  Measure(1, << Selection(0) >>, "i64", phases[i], FALSE,
                          NotSet)]),
          <<>>, << ExtensionFunction(1, "sum") >>) :
      phases \in UNION { [1..n -> Phases] : n \in 0..MaxMeasures } }

\* ::substrait::FilterRel, ::substrait::ProjectRel and ::substrait::JoinRel.
FilterRel(input, condition) ==
    [rel |-> "filter", input |-> input, condition |-> condition]
ProjectRel(input, expressions) ==
    [rel |-> "project", input |-> input, expressions |-> expressions]
JoinRel(left, right, type, expression) ==
    [rel |-> "join", left |-> left, right |-> right, type |-> type,
     expression |-> expression, hasPostJoinFilter |-> FALSE,
     postJoinFilter |-> NotSet]

\* The read of an i32 column x and two boolean columns m and k, two rows.
ReadXMK ==
    VirtualTableRead(
        << Column("x", "i32"), Column("m", "bool"), Column("k", "bool") >>,
        << << Literal("i32", 1), Literal("i32", 7), Literal("bool", 1),
              Literal("bool", 0), Literal("bool", 0), Literal("bool", 1) >> >>)

\* The masks of a generated measure: none, the column m, the column k.
MeasureMasks == {NotSet, Selection(1), Selection(2)}

\* The aggregate relations over ReadXMK with every mix of masked and
\* unmasked measures.
MaskPlans ==
    { PlanWithRoot(
          AggregateRel(ReadXMK, <<>>,
              [i \in 1..Len(masks) |->
                  Measure(1, << Selection(0) >>, "i64", "INITIAL_TO_RESULT",
                          masks[i] # NotSet, masks[i])]),
          <<>>, << ExtensionFunction(1, "sum") >>) :
      masks \in UNION { [1..n -> MeasureMasks] : n \in 1..MaxMeasures } }

\* The literal batch of the given number of fields.
LiteralBatch(fieldSize) == [k \in 1..fieldSize |-> Literal("i32", k)]

\* The reads of one or two i32 columns over every list of batches of up to
\* MaxFields fields.
ReadPlans ==
    { PlanWithRoot(
          VirtualTableRead([c \in 1..numColumns |->
                               Column("c" \o ToString(c), "i32")],
                           [index \in 1..Len(sizes) |->
                               LiteralBatch(sizes[index])]),
          <<>>, <<>>) :
      numColumns \in 1..2,
      sizes \in UNION { [1..n -> 0..MaxFields] : n \in 1..MaxBatches } }

\* Plans whose reads convert: a read, a projection of a read, and plans
\* that fail above their reads: a filter that calls an undeclared function,
\* a projection of a column the read does not have, a join of an
\* unspecified type, and a join whose right input fails.
ReadY ==
    VirtualTableRead(<< Column("y", "i32") >>, << << Literal("i32", 4) >> >>)
FailingFilter ==
    FilterRel(ReadY, [rex |-> "scalarFunction", ref |-> AnchorGte,
                      args |-> << Selection(0), Literal("i32", 5) >>,
                      outputType |-> "bool"])
NodePlans ==
    { PlanWithRoot(rel, <<>>, <<>>) :
      rel \in { ReadX,
                ProjectRel(ReadX, << Selection(0) >>),
                ProjectRel(ReadX, << Selection(3) >>),
                FailingFilter,
                JoinRel(ReadX, ReadY, "JOIN_TYPE_UNSPECIFIED", Selection(0)),
                JoinRel(ReadX, FailingFilter, "JOIN_TYPE_INNER",
                        Selection(0)) } }

\* The extension headers of the generated plans and the aggregate relations
\* whose one measure refers to anchor 1 or 2.
AnchorHeaders ==
    { <<>>, << ExtensionFunction(1, "sum") >>, << ExtensionFunction(1, "avg") >>,
      << ExtensionFunction(2, "sum") >>,
      << ExtensionFunction(1, "avg"), ExtensionFunction(2, "sum") >> }
AnchorPlans ==
    { PlanWithRoot(
          AggregateRel(ReadX, <<>>,
              << Measure(functionReference, << Selection(0) >>, "i64",
                         "INITIAL_TO_RESULT", FALSE, NotSet) >>),
          <<>>, extensions) :
      functionReference \in 1..2, extensions \in AnchorHeaders }

\* The plans handed to an inbound converter, and those handed to it after
\* the first.
InboundPlans == MaskPlans \cup ReadPlans \cup NodePlans \cup AnchorPlans
LaterPlans == NodePlans \cup AnchorPlans

\* The caller hands another plan to the inbound converter: the converter
\* keeps its functionMap_, planNodeId_ and splitInfoMap_.
NextSubstraitPlan ==
    /\ veloxPlan = NoNode
    /\ roundTrip.status = "done"
    /\ numCalls < MaxCalls
    /\ \E plan \in LaterPlans :
          planResult' = [status |-> "done", ok |-> TRUE, plan |-> plan]
    /\ roundTrip' = [roundTrip EXCEPT !.status = "idle", !.ok = FALSE,
                                      !.node = NoNode]
    /\ numCalls' = numCalls + 1
    /\ UNCHANGED <<loadVars, functionMap_, joinVars, filterVars, lookupVars,
                   extension, functionCollector_, veloxPlan>>

\* ::substrait::SortRel and ::substrait::SortField; a field without an
\* expression has hasExpr FALSE.
SortRel(input, sorts) == [rel |-> "sort", input |-> input, sorts |-> sorts]
SortField(direction, expr) ==
    [direction |-> direction, hasExpr |-> expr # NotSet, expr |-> expr]

\* The sort fields of the generated plans: the four directions and an
\* unspecified one, over no expression, the columns x and m, and a literal.
SortFields ==
    { SortField(direction, expr) :
      direction \in {"ASC_NULLS_FIRST", "ASC_NULLS_LAST", "DESC_NULLS_FIRST",
                     "DESC_NULLS_LAST", "UNSPECIFIED"},
      expr \in {NotSet, Selection(0), Selection(1), Literal("i32", 1)} }

\* The sorts of ReadXMK by every list of up to MaxSortFields sort fields.
SortPlans ==
    { PlanWithRoot(SortRel(ReadXMK, sorts), <<>>, <<>>) :
      sorts \in UNION { [1..n -> SortFields] : n \in 0..MaxSortFields } }

\* ::substrait::FetchRel
FetchRel(input, offset, count) ==
    [rel |-> "fetch", input |-> input, offset |-> offset, count |-> count]

\* The header that declares eq and gte by their bare names.
EqGteHeader ==
    << ExtensionFunction(AnchorEq, "eq"), ExtensionFunction(AnchorGte, "gte") >>

GteFive(idx) ==
    [rex |-> "scalarFunction", ref |-> AnchorGte,
     args |-> << Selection(idx), Literal("i32", 5) >>, outputType |-> "bool"]

\* Plans of one to six nodes: reads, single-input nodes over reads, joins
\* of such inputs, a join of a join, and a filter that fails above its read.
IdPlans ==
    { PlanWithRoot(rel, <<>>, EqGteHeader) :
      rel \in { ReadX,
                ProjectRel(ReadX, << Selection(0) >>),
                FilterRel(ReadY, GteFive(0)),
                FilterRel(ReadY, GteFive(3)),
                FetchRel(ProjectRel(ReadX, << Selection(0) >>), 0, 10),
                SortRel(FilterRel(ReadXMK, GteFive(0)),
                        << SortField("ASC_NULLS_LAST", Selection(0)) >>),
                JoinRel(ReadX, ReadY, "JOIN_TYPE_INNER",
                        Eq(Selection(0), Selection(1))),
                JoinRel(ProjectRel(ReadX, << Selection(0) >>),
                        FetchRel(ReadY, 0, 10), "JOIN_TYPE_INNER",
                        Eq(Selection(0), Selection(1))),
                JoinRel(JoinRel(ReadX, ReadY, "JOIN_TYPE_INNER",
                                Eq(Selection(0), Selection(1))),
                        FilterRel(ReadXMK, GteFive(0)), "JOIN_TYPE_INNER",
                        Eq(Selection(0), Selection(2))) } }

\* The caller hands another of these plans to the inbound converter.
NextIdPlan ==
    /\ veloxPlan = NoNode
    /\ roundTrip.status = "done"
    /\ numCalls < MaxCalls
    /\ \E plan \in IdPlans :
          planResult' = [status |-> "done", ok |-> TRUE, plan |-> plan]
    /\ roundTrip' = [roundTrip EXCEPT !.status = "idle", !.ok = FALSE,
                                      !.node = NoNode]
    /\ numCalls' = numCalls + 1
    /\ UNCHANGED <<loadVars, functionMap_, joinVars, filterVars, lookupVars,
                   extension, functionCollector_, veloxPlan>>

\* ::substrait::Plan with the given top-level relations.
PlanOf(relations, extensions) ==
    [relations |-> relations, extensions |-> extensions]

\* The lists of top-level relations: none, a root, a root without input, a
\* bare relation, a relation with no member set, and two relations.
TopLevelRelations ==
    { <<>>,
      << [root |-> [input |-> ReadX, names |-> <<>>]] >>,
      << [root |-> [input |-> AbsentRel, names |-> <<>>]] >>,
      << [rel |-> ReadX] >>,
      << [rel |-> ProjectRel(ReadY, << Selection(0) >>)] >>,
      << PlanRelNotSet >>,
      << [root |-> [input |-> ReadX, names |-> <<>>]],
         [root |-> [input |-> ReadY, names |-> <<>>]] >>,
      << [rel |-> ReadX], [rel |-> ReadY] >>,
      << PlanRelNotSet, [rel |-> ReadX] >> }

TopLevelPlans ==
    { PlanOf(relations, extensions) :
      relations \in TopLevelRelations,
      extensions \in { <<>>, << ExtensionFunction(1, "sum") >> } }

\* The caller hands a plan with any list of top-level relations to the
\* inbound converter.
NextTopLevelPlan ==
    /\ veloxPlan = NoNode
    /\ roundTrip.status = "done"
    /\ numCalls < MaxCalls
    /\ \E plan \in TopLevelPlans :
          planResult' = [status |-> "done", ok |-> TRUE, plan |-> plan]
    /\ roundTrip' = [roundTrip EXCEPT !.status = "idle", !.ok = FALSE,
                                      !.node = NoNode]
    /\ numCalls' = numCalls + 1
    /\ UNCHANGED <<loadVars, functionMap_, joinVars, filterVars, lookupVars,
                   extension, functionCollector_, veloxPlan>>

----------------------------------------------------------------------------
(* Catalog loading (SubstraitExtension.cpp).                               *)

\* YAML nodes.  A scalar holds its text as the pieces between line feeds; a
\* node that is a map is a record of its children, an absent child being
\* Undefined.
Undefined == [kind |-> "undefined", text |-> <<>>, items |-> <<>>]
Scalar(text) == [kind |-> "scalar", text |-> text, items |-> <<>>]
YamlSequence(items) == [kind |-> "sequence", text |-> <<>>, items |-> items]

IsDefined(node) == node.kind # "undefined"
IsScalar(node) == node.kind = "scalar"
IsSequence(node) == node.kind = "sequence"

\* The outcome of a convert<T>::decode: it returned true with a value,
\* returned false, or a conversion inside it threw.
DecodeTrue(value) == [status |-> "true", value |-> value]
DecodeFalse == [status |-> "false", value |-> <<>>]
DecodeThrows == [status |-> "throws", value |-> <<>>]

\* Node::as<T>() of yaml-cpp: the decoded value when convert<T>::decode
\* returned true, a thrown TypedBadConversion<T> when it returned false.
As(decoded) ==
    IF decoded.status = "true" THEN decoded ELSE DecodeThrows

AnyThrows(decoded) ==
    \E i \in 1..Len(decoded) : decoded[i].status # "true"

ValuesOf(decoded) == [i \in 1..Len(decoded) |-> decoded[i].value]

\* while (std::getline(ss, lastReturnType, '\n')) {}: the piece after the
\* last line feed.
LastLine(text) == IF text = <<>> THEN "" ELSE text[Len(text)]

\* convert<SubstraitEnumArgument>::decode.
decodeEnumArgument(node) ==
    IF IsDefined(node.options) /\ IsSequence(node.options)
    THEN IF IsDefined(node.required) /\ ~IsScalar(node.required)
         THEN DecodeThrows
         ELSE DecodeTrue(IF IsDefined(node.required)
                            /\ node.required.text = <<"true">>
                         THEN "req" ELSE "opt")
    ELSE DecodeFalse

\* convert<SubstraitValueArgument>::decode.
decodeValueArgument(node) ==
    IF IsDefined(node.value) /\ IsScalar(node.value)
    THEN DecodeTrue(LastLine(node.value.text))
    ELSE DecodeFalse

\* convert<SubstraitTypeArgument>::decode.
decodeTypeArgument(node) ==
    IF IsDefined(node.type) THEN DecodeTrue("type") ELSE DecodeFalse

\* The argument loop of decodeFunctionVariant: an enum argument when
\* "options" is there, else a value argument when "value" is there, else a
\* type argument.
decodeArgument(arg) ==
    IF IsDefined(arg.options) THEN As(decodeEnumArgument(arg))
    ELSE IF IsDefined(arg.value) THEN As(decodeValueArgument(arg))
    ELSE As(decodeTypeArgument(arg))

decodeArguments(args) ==
    IF IsDefined(args) /\ IsSequence(args)
    THEN [i \in 1..Len(args.items) |-> decodeArgument(args.items[i])]
    ELSE <<>>

\* The variant decodeFunctionVariant fills in from the decoded arguments.
VariantOfArguments(node, arguments) ==
    IF AnyThrows(arguments) THEN DecodeThrows
    ELSE DecodeTrue([name |-> "", args |-> ValuesOf(arguments),
                     ret |-> LastLine(node.return.text), uri |-> "",
                     intermediate |-> <<>>])

\* decodeFunctionVariant.
decodeFunctionVariant(node) ==
    IF IsDefined(node.return) /\ IsScalar(node.return)
    THEN VariantOfArguments(node, decodeArguments(node.args))
    ELSE DecodeFalse

\* convert<SubstraitScalarFunctionVariant>::decode.
decodeScalarFunctionVariant(node) == decodeFunctionVariant(node)

\* The intermediate type convert<SubstraitAggregateFunctionVariant>::decode
\* adds to a decoded variant.
WithIntermediate(node, res) ==
    IF res.status = "true" /\ IsDefined(node.intermediate)
    THEN IF IsScalar(node.intermediate)
         THEN DecodeTrue([res.value EXCEPT
                  !.intermediate = << LastLine(node.intermediate.text) >>])
         ELSE DecodeThrows
    ELSE res

\* convert<SubstraitAggregateFunctionVariant>::decode.
decodeAggregateFunctionVariant(node) ==
    WithIntermediate(node, decodeFunctionVariant(node))

\* The function a function decode fills in from its decoded impls.
FunctionOfImpls(name, impls) ==
    IF AnyThrows(impls) THEN DecodeThrows
    ELSE DecodeTrue([name |-> name,
                     impls |-> [i \in 1..Len(impls) |->
                                   [impls[i].value EXCEPT !.name = name]]])

\* convert<SubstraitScalarFunction>::decode.
decodeScalarFunction(node) ==
    IF IsDefined(node.name) /\ IsScalar(node.name)
    THEN FunctionOfImpls(LastLine(node.name.text),
             IF IsDefined(node.impls) /\ IsSequence(node.impls)
             THEN [i \in 1..Len(node.impls.items) |->
                      As(decodeScalarFunctionVariant(node.impls.items[i]))]
             ELSE <<>>)
    ELSE DecodeFalse

\* convert<SubstraitAggregateFunction>::decode.
decodeAggregateFunction(node) ==
    IF IsDefined(node.name) /\ IsScalar(node.name)
    THEN FunctionOfImpls(LastLine(node.name.text),
             IF IsDefined(node.impls) /\ IsSequence(node.impls)
             THEN [i \in 1..Len(node.impls.items) |->
                      As(decodeAggregateFunctionVariant(node.impls.items[i]))]
             ELSE <<>>)
    ELSE DecodeFalse

\* convert<SubstraitTypeAnchor>::decode.
decodeTypeAnchor(node) ==
    IF IsDefined(node.name) /\ IsScalar(node.name)
    THEN DecodeTrue([name |-> LastLine(node.name.text), uri |-> ""])
    ELSE DecodeFalse

\* The lists of a sequence of lists, one after the other.
RECURSIVE Concat(_)
Concat(lists) ==
    IF lists = <<>> THEN <<>> ELSE Head(lists) \o Concat(Tail(lists))

ImplsOf(functions) ==
    Concat([i \in 1..Len(functions) |-> functions[i].value.impls])

\* The extension convert<SubstraitExtension>::decode fills in from the
\* decoded functions and type anchors.
ExtensionOfEntries(scalarFunctionNodes, aggregateFunctionNodes, typeNodes) ==
    IF AnyThrows(scalarFunctionNodes) \/ AnyThrows(aggregateFunctionNodes)
       \/ AnyThrows(typeNodes)
    THEN DecodeThrows
    ELSE DecodeTrue([scalarFunctionVariants |-> ImplsOf(scalarFunctionNodes),
                     aggregateFunctionVariants |-> ImplsOf(aggregateFunctionNodes),
                     types |-> ValuesOf(typeNodes)])

\* convert<SubstraitExtension>::decode.
decodeExtension(node) ==
    IF ~(IsDefined(node.scalar_functions) /\ IsSequence(node.scalar_functions))
       /\ ~(IsDefined(node.aggregate_functions)
            /\ IsSequence(node.aggregate_functions))
    THEN DecodeFalse
    ELSE ExtensionOfEntries(
             IF IsDefined(node.scalar_functions)
                /\ IsSequence(node.scalar_functions)
             THEN [i \in 1..Len(node.scalar_functions.items) |->
                      As(decodeScalarFunction(node.scalar_functions.items[i]))]
             ELSE <<>>,
             IF IsDefined(node.aggregate_functions)
                /\ IsSequence(node.aggregate_functions)
             THEN [i \in 1..Len(node.aggregate_functions.items) |->
                      As(decodeAggregateFunction(
                             node.aggregate_functions.items[i]))]
             ELSE <<>>,
             IF IsDefined(node.types) /\ IsSequence(node.types)
             THEN [i \in 1..Len(node.types.items) |->
                      As(decodeTypeAnchor(node.types.items[i]))]
             ELSE <<>>)

\* Nodes of the extension files.
ValueArg(type) ==
    [options |-> Undefined, value |-> Scalar(<<type>>), type |-> Undefined,
     required |-> Undefined]
EnumArg(required) ==
    [options |-> YamlSequence(<<Scalar(<<"FLOOR">>), Scalar(<<"CEILING">>)>>),
     value |-> Undefined, type |-> Undefined, required |-> required]
TypeArg ==
    [options |-> Undefined, value |-> Undefined, type |-> Scalar(<<"any">>),
     required |-> Undefined]
BareArg ==
    [options |-> Undefined, value |-> Undefined, type |-> Undefined,
     required |-> Undefined]
Impl(args, return, intermediate) ==
    [args |-> YamlSequence(args), return |-> return,
     intermediate |-> intermediate]
FunctionNode(name, impls) == [name |-> name, impls |-> impls]
TypeNode(name) == [name |-> name]
Document(scalar_functions, aggregate_functions, types) ==
    [parsable |-> TRUE, scalar_functions |-> scalar_functions,
     aggregate_functions |-> aggregate_functions, types |-> types]

AddI32 == Impl(<<ValueArg("i32"), ValueArg("i32")>>, Scalar(<<"i32">>), Undefined)
AddFp64 ==
    Impl(<<ValueArg("fp64"), ValueArg("fp64")>>,
         Scalar(<<"init = fp64", "fp64">>), Undefined)
AddI64 == Impl(<<ValueArg("i64"), ValueArg("i64")>>, Scalar(<<"i64">>), Undefined)
GteI32 == Impl(<<ValueArg("i32"), ValueArg("i32")>>, Scalar(<<"bool">>), Undefined)
RoundFp64 ==
    Impl(<<EnumArg(Scalar(<<"true">>)), ValueArg("fp64")>>, Scalar(<<"fp64">>),
         Undefined)
SumI32 == Impl(<<ValueArg("i32")>>, Scalar(<<"i64">>), Scalar(<<"i64">>))
CountAny == Impl(<<TypeArg>>, Scalar(<<"i64">>), Undefined)

\* The extension files: YAML::LoadFile(extensionUri).  Two well-formed
\* files sharing the name add, files with one malformed entry each among
\* well-formed ones, a file that declares types only, and a file that is not
\* YAML.
ExtensionUris ==
    { "functions_arithmetic.yaml", "functions_comparison.yaml",
      "impl_without_return.yaml", "argument_without_type.yaml",
      "function_without_name.yaml", "type_without_name.yaml",
      "function_without_impls.yaml", "types_only.yaml", "not_yaml.yaml" }

LoadFile(extensionUri) ==
    CASE extensionUri = "functions_arithmetic.yaml" ->
           Document(
             YamlSequence(<<FunctionNode(Scalar(<<"add">>),
                                         YamlSequence(<<AddI32, AddFp64>>))>>),
             YamlSequence(<<FunctionNode(Scalar(<<"sum">>),
                                         YamlSequence(<<SumI32>>))>>),
             YamlSequence(<<TypeNode(Scalar(<<"point">>))>>))
      [] extensionUri = "functions_comparison.yaml" ->
           Document(
             YamlSequence(<<FunctionNode(Scalar(<<"gte">>),
                                         YamlSequence(<<GteI32>>)),
                            FunctionNode(Scalar(<<"add">>),
                                         YamlSequence(<<AddI64>>))>>),
             Undefined, Undefined)
      [] extensionUri = "impl_without_return.yaml" ->
           Document(
             YamlSequence(<<FunctionNode(Scalar(<<"add">>),
                              YamlSequence(<<AddI32,
                                  Impl(<<ValueArg("i64"), ValueArg("i64")>>,
                                       Undefined, Undefined)>>))>>),
             Undefined, Undefined)
      [] extensionUri = "argument_without_type.yaml" ->
           Document(
             YamlSequence(<<FunctionNode(Scalar(<<"round">>),
                              YamlSequence(<<RoundFp64,
                                  Impl(<<ValueArg("i32"), BareArg>>,
                                       Scalar(<<"i32">>), Undefined)>>))>>),
             YamlSequence(<<FunctionNode(Scalar(<<"count">>),
                                         YamlSequence(<<CountAny>>))>>),
             Undefined)
      [] extensionUri = "function_without_name.yaml" ->
           Document(
             YamlSequence(<<FunctionNode(Undefined, YamlSequence(<<AddI32>>)),
                            FunctionNode(Scalar(<<"gte">>),
                                         YamlSequence(<<GteI32>>))>>),
             Undefined, Undefined)
      [] extensionUri = "type_without_name.yaml" ->
           Document(
             YamlSequence(<<FunctionNode(Scalar(<<"gte">>),
                                         YamlSequence(<<GteI32>>))>>),
             Undefined,
             YamlSequence(<<TypeNode(Undefined),
                            TypeNode(Scalar(<<"point">>))>>))
      [] extensionUri = "function_without_impls.yaml" ->
           Document(
             YamlSequence(<<FunctionNode(Scalar(<<"add">>), Undefined),
                            FunctionNode(Scalar(<<"gte">>),
                                         YamlSequence(<<GteI32>>))>>),
             Undefined, Undefined)
      [] extensionUri = "types_only.yaml" ->
           Document(Undefined, Undefined,
                    YamlSequence(<<TypeNode(Scalar(<<"point">>))>>))
      [] extensionUri = "not_yaml.yaml" ->
           [parsable |-> FALSE, scalar_functions |-> Undefined,
            aggregate_functions |-> Undefined, types |-> Undefined]

\* The entries with their uri set to the file they were loaded from.
WithUri(entries, extensionUri) ==
    [i \in 1..Len(entries) |-> [entries[i] EXCEPT !.uri = extensionUri]]

EmptyExtension ==
    [scalarFunctionVariants |-> <<>>, aggregateFunctionVariants |-> <<>>,
     types |-> <<>>]

\* A merge that leaves out the entries the merged extension already holds.
MergeExtension_SkipsKnownEntries(merged, substraitExtension, extensionUri) ==
    LET Fresh(known, entries) ==
            SelectSeq(WithUri(entries, extensionUri),
                      LAMBDA e : \A k \in 1..Len(known) : known[k] # e)
    IN  [scalarFunctionVariants |->
             merged.scalarFunctionVariants
                 \o Fresh(merged.scalarFunctionVariants,
                          substraitExtension.scalarFunctionVariants),
         aggregateFunctionVariants |->
             merged.aggregateFunctionVariants
                 \o Fresh(merged.aggregateFunctionVariants,
                          substraitExtension.aggregateFunctionVariants),
         types |-> merged.types
                       \o Fresh(merged.types, substraitExtension.types)]

\* One round of the loop of loadExtension: the entries of a decoded file,
\* tagged with its uri, appended to the merged extension.
MergeExtension(merged, substraitExtension, extensionUri) ==
    [scalarFunctionVariants |->
         merged.scalarFunctionVariants
             \o WithUri(substraitExtension.scalarFunctionVariants, extensionUri),
     aggregateFunctionVariants |->
         merged.aggregateFunctionVariants
             \o WithUri(substraitExtension.aggregateFunctionVariants,
                        extensionUri),
     types |-> merged.types \o WithUri(substraitExtension.types, extensionUri)]

\* YAML::LoadFile(extensionUri).as<SubstraitExtension>(): LoadFile throws on
\* a file that is not YAML.
LoadAs(document) ==
    IF document.parsable THEN As(decodeExtension(document)) ELSE DecodeThrows

\* The loop of loadExtension from file i on.
RECURSIVE LoadFrom(_, _, _)
LoadFrom(files, i, merged) ==
    IF i > Len(files) THEN [status |-> "loaded", extension |-> merged]
    ELSE IF LoadAs(LoadFile(files[i])).status # "true"
         THEN [status |-> "thrown", extension |-> EmptyExtension]
         ELSE LoadFrom(files, i + 1,
                       MergeExtension(merged,
                                      LoadAs(LoadFile(files[i])).value,
                                      files[i]))

\* SubstraitExtension::loadExtension(yamlExtensionFiles).
loadExtension(files) == LoadFrom(files, 1, EmptyExtension)

NotLoaded == [status |-> "not loaded", extension |-> EmptyExtension]

\* The call loadExtension(yamlExtensionFiles).
LoadExtension ==
    /\ mergedExtension = NotLoaded
    /\ mergedExtension' = loadExtension(yamlExtensionFiles)
    /\ UNCHANGED <<functionMap_, joinVars, filterVars, lookupVars, outVars,
                   yamlExtensionFiles>>

LoadIdle ==
    /\ yamlExtensionFiles = <<>>
    /\ mergedExtension = [status |-> "off", extension |-> EmptyExtension]

----------------------------------------------------------------------------
(* Specifications.                                                         *)

JoinIdle ==
    /\ joinExpression = Selection(0)
    /\ joinResult = [status |-> "off", leftExprs |-> <<>>, rightExprs |-> <<>>]

InitJoin ==
    /\ functionMap_ \in {PlainFunctionMap, QualifiedFunctionMap}
    /\ joinExpression \in JoinExpressions
    /\ joinResult = NoJoinResult
    /\ FilterIdle
    /\ LookupIdle
    /\ OutIdle
    /\ LoadIdle

NextJoin == ExtractJoinKeys

SpecJoin == InitJoin /\ [][NextJoin]_vars

InitFilter ==
    /\ functionMap_ \in {PlainFunctionMap, QualifiedFunctionMap}
    /\ substraitFilter \in FilterExpressions
    /\ scalarFunctions = <<>>
    /\ foldIdx = 0
    /\ colInfoMap = <<>>
    /\ filters = <<>>
    /\ filterPc = "idle"
    /\ JoinIdle
    /\ LookupIdle
    /\ OutIdle
    /\ LoadIdle

NextFilter == FlattenFilter \/ FoldLeaf \/ ConstructFilters

SpecFilter == InitFilter /\ [][NextFilter]_vars

InitWildcard ==
    /\ functionMap_ = PlainFunctionMap
    /\ wildcardVariant \in WildcardVariants
    /\ querySignature \in QuerySignatures
    /\ matchResult = [status |-> "idle", variant |-> <<>>]
    /\ JoinIdle
    /\ FilterIdle
    /\ OutIdle
    /\ LoadIdle

NextWildcard == TryMatch

SpecWildcard == InitWildcard /\ [][NextWildcard]_vars

\* One lookup of a signature in the scalar or the aggregate variants of a
\* catalog.
InitLookup ==
    /\ functionMap_ = <<>>
    /\ \E c \in LookupCatalogs :
          extension = [scalarFunctionVariants |-> AsScalarVariants(c),
                       aggregateFunctionVariants |-> c]
    /\ functionCollector_ = NewCollector
    /\ veloxPlan = NoNode
    /\ planResult = [status |-> "off", ok |-> FALSE, plan |-> NoPlan]
    /\ roundTrip = NoRoundTrip
    /\ numCalls = 0
    /\ wildcardVariant = FunctionVariant("", <<>>, "", "")
    /\ querySignature \in LookupSignatures
    /\ matchResult = [status |-> "lookup", variant |-> <<>>]
    /\ JoinIdle
    /\ FilterIdle
    /\ LoadIdle

NextLookup == LookupScalarFunction \/ LookupAggregateFunction

SpecLookup == InitLookup /\ [][NextLookup]_vars

\* The aggregation step mapped out and back, and the aggregation phase
\* mapped in.
InitPhase ==
    /\ functionMap_ = <<>>
    /\ extension = FullExtension
    /\ functionCollector_ = NewCollector
    /\ \/ /\ veloxPlan \in PhaseNodes
          /\ planResult = NotConverted
       \/ /\ veloxPlan = NoNode
          /\ \E plan \in PhasePlans :
                planResult = [status |-> "done", ok |-> TRUE, plan |-> plan]
    /\ roundTrip = NoRoundTrip
    /\ numCalls = 0
    /\ JoinIdle
    /\ FilterIdle
    /\ LookupIdle
    /\ LoadIdle

NextPhase == ToSubstrait \/ ToVeloxPlan

SpecPhase == InitPhase /\ [][NextPhase]_vars

\* One outbound conversion by a new converter, then the inbound conversion
\* of its result.
InitOut ==
    /\ functionMap_ = <<>>
    /\ extension \in Extensions
    /\ functionCollector_ = NewCollector
    /\ veloxPlan \in VeloxPlans
    /\ planResult = NotConverted
    /\ roundTrip = NoRoundTrip
    /\ numCalls = 0
    /\ JoinIdle
    /\ FilterIdle
    /\ LookupIdle
    /\ LoadIdle

NextOut == ToSubstrait \/ ToVeloxPlan

SpecOut == InitOut /\ [][NextOut]_vars

\* Several outbound conversions by one converter.
InitCalls ==
    /\ functionMap_ = <<>>
    /\ extension = FullExtension
    /\ functionCollector_ = NewCollector
    /\ veloxPlan \in CallPlans
    /\ planResult = NotConverted
    /\ roundTrip = NoRoundTrip
    /\ numCalls = 0
    /\ JoinIdle
    /\ FilterIdle
    /\ LookupIdle
    /\ LoadIdle

NextCalls == ToSubstrait \/ NextPlan

SpecCalls == InitCalls /\ [][NextCalls]_vars

\* One outbound conversion of a join of any type, and the conversion back
\* of the plan it produced.
InitOutJoin ==
    /\ functionMap_ = <<>>
    /\ extension = FullExtension
    /\ functionCollector_ = NewCollector
    /\ veloxPlan \in JoinNodes
    /\ planResult = NotConverted
    /\ roundTrip = NoRoundTrip
    /\ numCalls = 0
    /\ JoinIdle
    /\ FilterIdle
    /\ LookupIdle
    /\ LoadIdle

NextOutJoin == ToSubstrait \/ ToVeloxPlan

SpecOutJoin == InitOutJoin /\ [][NextOutJoin]_vars

\* Plans handed one after the other to one inbound converter.
InitInbound ==
    /\ functionMap_ = <<>>
    /\ extension = FullExtension
    /\ functionCollector_ = NewCollector
    /\ veloxPlan = NoNode
    /\ \E plan \in InboundPlans :
          planResult = [status |-> "done", ok |-> TRUE, plan |-> plan]
    /\ roundTrip = NoRoundTrip
    /\ numCalls = 1
    /\ JoinIdle
    /\ FilterIdle
    /\ LookupIdle
    /\ LoadIdle

NextInbound == ToVeloxPlan \/ NextSubstraitPlan

SpecInbound == InitInbound /\ [][NextInbound]_vars

\* toVeloxFilter on filters whose leaves may lack an argument.
InitLeaf ==
    /\ functionMap_ = PlainFunctionMap
    /\ substraitFilter \in ArgumentFilters
    /\ scalarFunctions = <<>>
    /\ foldIdx = 0
    /\ colInfoMap = <<>>
    /\ filters = <<>>
    /\ filterPc = "idle"
    /\ JoinIdle
    /\ LookupIdle
    /\ OutIdle
    /\ LoadIdle

NextLeaf == FlattenFilter \/ FoldLeaf \/ ConstructFilters

SpecLeaf == InitLeaf /\ [][NextLeaf]_vars

\* One load of a list of extension files.
InitLoad ==
    /\ functionMap_ = <<>>
    /\ yamlExtensionFiles \in
           UNION { [1..n -> ExtensionUris] : n \in 0..MaxSources }
    /\ mergedExtension = NotLoaded
    /\ JoinIdle
    /\ FilterIdle
    /\ LookupIdle
    /\ OutIdle

NextLoad == LoadExtension

SpecLoad == InitLoad /\ [][NextLoad]_vars

\* Plans with any list of top-level relations handed one after the other to
\* one inbound converter.
InitTopLevel ==
    /\ functionMap_ = <<>>
    /\ extension = FullExtension
    /\ functionCollector_ = NewCollector
    /\ veloxPlan = NoNode
    /\ \E plan \in TopLevelPlans :
          planResult = [status |-> "done", ok |-> TRUE, plan |-> plan]
    /\ roundTrip = NoRoundTrip
    /\ numCalls = 1
    /\ JoinIdle
    /\ FilterIdle
    /\ LookupIdle
    /\ LoadIdle

NextTopLevel == ToVeloxPlan \/ NextTopLevelPlan

SpecTopLevel == InitTopLevel /\ [][NextTopLevel]_vars

\* One inbound conversion of a sort.
InitSort ==
    /\ functionMap_ = <<>>
    /\ extension = FullExtension
    /\ functionCollector_ = NewCollector
    /\ veloxPlan = NoNode
    /\ \E plan \in SortPlans :
          planResult = [status |-> "done", ok |-> TRUE, plan |-> plan]
    /\ roundTrip = NoRoundTrip
    /\ numCalls = 1
    /\ JoinIdle
    /\ FilterIdle
    /\ LookupIdle
    /\ LoadIdle

NextSort == ToVeloxPlan

SpecSort == InitSort /\ [][NextSort]_vars

\* Projections converted outbound one after the other by one converter.
InitExpr ==
    /\ functionMap_ = <<>>
    /\ extension \in Extensions
    /\ functionCollector_ = NewCollector
    /\ veloxPlan \in ExprPlans
    /\ planResult = NotConverted
    /\ roundTrip = NoRoundTrip
    /\ numCalls = 0
    /\ JoinIdle
    /\ FilterIdle
    /\ LookupIdle
    /\ LoadIdle

NextExpr == ToSubstrait \/ NextExprPlan

SpecExpr == InitExpr /\ [][NextExpr]_vars

\* Plans of several nodes handed one after the other to one inbound
\* converter.
InitIds ==
    /\ functionMap_ = <<>>
    /\ extension = FullExtension
    /\ functionCollector_ = NewCollector
    /\ veloxPlan = NoNode
    /\ \E plan \in IdPlans :
          planResult = [status |-> "done", ok |-> TRUE, plan |-> plan]
    /\ roundTrip = NoRoundTrip
    /\ numCalls = 0
    /\ JoinIdle
    /\ FilterIdle
    /\ LookupIdle
    /\ LoadIdle

NextIds == ToVeloxPlan \/ NextIdPlan

SpecIds == InitIds /\ [][NextIds]_vars

Init ==
    \/ InitJoin \/ InitFilter \/ InitWildcard \/ InitOut \/ InitCalls
    \/ InitLookup \/ InitPhase \/ InitLoad \/ InitOutJoin \/ InitInbound \/ InitLeaf
    \/ InitTopLevel \/ InitSort \/ InitExpr \/ InitIds

Next ==
    \/ NextJoin \/ NextFilter \/ NextWildcard \/ NextOut \/ NextCalls
    \/ NextLookup \/ NextPhase \/ NextLoad \/ NextOutJoin \/ NextInbound \/ NextLeaf
    \/ NextTopLevel \/ NextSort \/ NextExpr \/ NextIds

Spec == Init /\ [][Next]_vars

----------------------------------------------------------------------------
(* Claims about join decomposition.                                        *)

IsFieldEq(fmap, e) ==
    /\ e.rex = "scalarFunction"
    /\ findFunctionSpec(fmap, e.ref) = PlainName("eq")
    /\ Len(e.args) = 2
    /\ \A i \in 1..2 : e.args[i].rex = "selection"

IsNamed(fmap, e, n) ==
    e.rex = "scalarFunction" /\ findFunctionSpec(fmap, e.ref) = PlainName(n)

RECURSIVE IsEquiConjunction(_, _), EqLeaves(_, _)
\* e is a tree of "and" nodes whose leaves are all eq of two field references.
IsEquiConjunction(fmap, e) ==
    \/ IsFieldEq(fmap, e)
    \/ /\ IsNamed(fmap, e, "and")
       /\ \A i \in 1..Len(e.args) : IsEquiConjunction(fmap, e.args[i])

RECURSIVE SeqSum(_)
SeqSum(s) == IF s = <<>> THEN 0 ELSE s[1] + SeqSum(Tail(s))

\* The number of eq leaves of an equi-conjunction.
EqLeaves(fmap, e) ==
    IF IsNamed(fmap, e, "and")
    THEN SeqSum([i \in 1..Len(e.args) |-> EqLeaves(fmap, e.args[i])])
    ELSE 1

JoinRan == joinResult.status # "idle"

\* C1: and(eq(a,b), eq(c,d)) decomposes to the ordered key pairs
\* [(a,b),(c,d)], i.e. left keys [a,c] and right keys [b,d]; eq(a,b) alone
\* decomposes to [(a,b)]; or(eq(a,b), eq(c,d)) is fatal.
C1_JoinDecomposition ==
    (JoinRan /\ functionMap_ = PlainFunctionMap) =>
        /\ ( /\ IsNamed(functionMap_, joinExpression, "and")
             /\ Len(joinExpression.args) = 2
             /\ \A i \in 1..2 : IsFieldEq(functionMap_, joinExpression.args[i]) )
           => /\ joinResult.status = "done"
              /\ joinResult.leftExprs =
                    <<joinExpression.args[1].args[1], joinExpression.args[2].args[1]>>
              /\ joinResult.rightExprs =
                    <<joinExpression.args[1].args[2], joinExpression.args[2].args[2]>>
        /\ IsFieldEq(functionMap_, joinExpression)
           => /\ joinResult.status = "done"
              /\ joinResult.leftExprs = <<joinExpression.args[1]>>
              /\ joinResult.rightExprs = <<joinExpression.args[2]>>
        /\ IsNamed(functionMap_, joinExpression, "or")
           => joinResult.status = "fatal"

\* C2: for a tree of "and" nodes of any arity whose leaves are all eq of two
\* field references, extractJoinKeys succeeds and extracts exactly one key
\* pair per eq leaf.
C2_OnePairPerEqLeaf ==
    (JoinRan /\ functionMap_ = PlainFunctionMap
        /\ IsEquiConjunction(functionMap_, joinExpression)) =>
        /\ joinResult.status = "done"
        /\ Len(joinResult.leftExprs) = EqLeaves(functionMap_, joinExpression)
        /\ Len(joinResult.rightExprs) = EqLeaves(functionMap_, joinExpression)

----------------------------------------------------------------------------
(* Claims about range folding.                                             *)

\* All nestings of "and" over the three leaves a, b, c in every order.
NestingsOf(a, b, c) ==
    UNION { { And(<<p[1], p[2], p[3]>>),
              And(<<And(<<p[1], p[2]>>), p[3]>>),
              And(<<p[1], And(<<p[2], p[3]>>)>>) } :
            p \in { q \in [1..3 -> {a, b, c}] : {q[1], q[2], q[3]} = {a, b, c} } }

\* The filters gte(col,5) and lt(col,10) and is_not_null(col), in any
\* order and nesting.
RangeNestings(col) ==
    NestingsOf(Gte(<<Selection(col), Literal("fp64", 5)>>),
               Lt(<<Selection(col), Literal("fp64", 10)>>),
               IsNotNull(<<Selection(col)>>))

\* C6: any nesting and order of gte(col,5), lt(col,10), is_not_null(col)
\* folds to lower bound 5 inclusive, upper bound 10 exclusive, null not
\* allowed for that column, and the columns with no leaf get no predicate.
C6_RangeFoldingOrderIndependent ==
    \A col \in Columns :
        (filterPc \notin {"off", "idle"} /\ substraitFilter \in RangeNestings(col)) =>
            /\ filterPc \in {"fold", "done"}
            /\ filterPc = "done" =>
                /\ filters[col] =
                      << [ lower |-> 5, lowerUnbounded |-> FALSE,
                           lowerExclusive |-> FALSE,
                           upper |-> 10, upperUnbounded |-> FALSE,
                           upperExclusive |-> TRUE,
                           nullAllowed |-> FALSE ] >>
                /\ \A other \in Columns \ {col} : filters[other] = <<>>

C6_Witness ==
    /\ filterPc = "done"
    /\ substraitFilter =
          And(<<IsNotNull(<<Selection(0)>>),
                And(<<Lt(<<Selection(0), Literal("fp64", 10)>>),
                      Gte(<<Selection(0), Literal("fp64", 5)>>)>>)>>)
    /\ filters[0] # <<>>

\* The name, column and value a leaf states.
LeafName(leaf) ==
    getNameBeforeDelimiter(findFunctionSpec(functionMap_, leaf.ref), ":")
LeafColumn(leaf) == leaf.args[1].idx
LeafBound(leaf) == leaf.args[2].val

\* A leaf with one direct field reference followed, for a comparison, by one
\* fp64 literal.
WellFormedLeaf(leaf) ==
    /\ LeafName(leaf) \in FilterNames
    /\ Len(leaf.args) >= 1
    /\ leaf.args[1].rex = "selection"
    /\ IF LeafName(leaf) = <<"is_not_null">> THEN Len(leaf.args) = 1
       ELSE /\ Len(leaf.args) = 2
            /\ leaf.args[2].rex = "literal"
            /\ leaf.args[2].lit = "fp64"

Folded == 1..(foldIdx - 1)

LastIn(S) == CHOOSE i \in S : \A j \in S : j <= i

\* The accumulator of every column is determined by the last folded leaf of
\* each side.
C7_State ==
    (filterPc \notin {"off", "idle"}
        /\ \A i \in Folded : WellFormedLeaf(scalarFunctions[i])) =>
    \A col \in Columns :
        LET info == colInfoMap[col]
            on(names) == { i \in Folded :
                             /\ LeafColumn(scalarFunctions[i]) = col
                             /\ LeafName(scalarFunctions[i]) \in names }
            lows == on({ <<"gte">>, <<"gt">> })
            ups == on({ <<"lte">>, <<"lt">> })
        IN  /\ Len(info.left_) <= 1
            /\ Len(info.right_) <= 1
            /\ IF lows = {} THEN info.left_ = <<>>
               ELSE /\ info.left_ = << LeafBound(scalarFunctions[LastIn(lows)]) >>
                    /\ info.leftExclusive_ =
                          (LeafName(scalarFunctions[LastIn(lows)]) = <<"gt">>)
            /\ IF ups = {} THEN info.right_ = <<>>
               ELSE /\ info.right_ = << LeafBound(scalarFunctions[LastIn(ups)]) >>
                    /\ info.rightExclusive_ =
                          (LeafName(scalarFunctions[LastIn(ups)]) = <<"lt">>)
            /\ info.nullAllowed_ = (on({ <<"is_not_null">> }) = {})

\* Folding a leaf leaves the other columns, and the opposite side of its own
\* column, as they were.
C7_Step ==
    (filterPc = "fold" /\ foldIdx' = foldIdx + 1
        /\ WellFormedLeaf(scalarFunctions[foldIdx])) =>
    LET leaf == scalarFunctions[foldIdx]
        col == LeafColumn(leaf)
    IN  /\ \A other \in Columns \ {col} : colInfoMap'[other] = colInfoMap[other]
        /\ LeafName(leaf) \in { <<"gte">>, <<"gt">> } =>
              /\ colInfoMap'[col].right_ = colInfoMap[col].right_
              /\ colInfoMap'[col].rightExclusive_ = colInfoMap[col].rightExclusive_
              /\ colInfoMap'[col].nullAllowed_ = colInfoMap[col].nullAllowed_
        /\ LeafName(leaf) \in { <<"lte">>, <<"lt">> } =>
              /\ colInfoMap'[col].left_ = colInfoMap[col].left_
              /\ colInfoMap'[col].leftExclusive_ = colInfoMap[col].leftExclusive_
              /\ colInfoMap'[col].nullAllowed_ = colInfoMap[col].nullAllowed_
        /\ LeafName(leaf) = <<"is_not_null">> =>
              /\ colInfoMap'[col].left_ = colInfoMap[col].left_
              /\ colInfoMap'[col].leftExclusive_ = colInfoMap[col].leftExclusive_
              /\ colInfoMap'[col].right_ = colInfoMap[col].right_
              /\ colInfoMap'[col].rightExclusive_ = colInfoMap[col].rightExclusive_

\* C7: last write wins.  Each column holds at most one lower and one upper
\* bound; the lower bound is that of the last gte/gt leaf folded on the
\* column, the upper bound that of the last lte/lt leaf, nullAllowed is false
\* iff an is_not_null leaf named the column; and folding a leaf changes
\* neither the opposite side of its column nor any other column.
C7_LastWriteWins == []C7_State /\ [][C7_Step]_vars

\* A lower bound 5 (gte) was overwritten by the later, looser bound 3 (gt).
C7_Witness ==
    /\ filterPc = "done"
    /\ Len(scalarFunctions) = 3
    /\ scalarFunctions[1] = Gte(<<Selection(0), Literal("fp64", 5)>>)
    /\ scalarFunctions[2] = Lt(<<Selection(0), Literal("fp64", 10)>>)
    /\ scalarFunctions[3] = Gt(<<Selection(0), Literal("fp64", 3)>>)
    /\ colInfoMap[0].left_ = <<3>>
    /\ colInfoMap[0].leftExclusive_
    /\ colInfoMap[0].right_ = <<10>>

----------------------------------------------------------------------------
(* Claims about function lookup.                                           *)

\* C10: a wildcard-bearing variant with the same type variable at positions
\* i and j matches a signature only if the signature's types at i and j are
\* identical; a signature whose types differ there is rejected.
C10_WildcardConsistency ==
    matchResult.status = "done" =>
        \A i, j \in 1..Len(wildcardVariant.args) :
            ( /\ wildcardVariant.args[i] \in WildcardTypes
              /\ wildcardVariant.args[i] = wildcardVariant.args[j]
              /\ matchResult.variant # <<>> )
            => /\ i <= Len(querySignature.args)
               /\ j <= Len(querySignature.args)
               /\ querySignature.args[i] = querySignature.args[j]

\* add(any1, any1) was tried against add(i32, fp64) and rejected.
C10_Witness ==
    /\ matchResult.status = "done"
    /\ wildcardVariant.args = <<"any1", "any1">>
    /\ querySignature.args = <<"i32", "fp64">>
    /\ matchResult.variant = <<>>

----------------------------------------------------------------------------
(* Claims about outbound conversion and the round trip.                    *)

RECURSIVE NodeKinds(_), Shape(_), CallsOf(_), FunctionReferences(_)
RECURSIVE RelFunctionReferences(_), PlanNodes(_)

\* The nodes of a plan.
PlanNodes(planNode) ==
    {planNode} \cup UNION { PlanNodes(planNode.sources[i]) :
                            i \in 1..Len(planNode.sources) }

NodeKinds(planNode) == { n.node : n \in PlanNodes(planNode) }

\* The operator tree of a plan: the node kinds and how they nest.
Shape(planNode) ==
    [kind |-> planNode.node,
     inputs |-> [i \in 1..Len(planNode.sources) |-> Shape(planNode.sources[i])]]

ColumnTypes(planNode) ==
    [i \in 1..Len(outputType(planNode)) |-> outputType(planNode)[i].type]

\* The calls of an expression, nested ones included.
CallsOf(expr) ==
    IF expr.e # "call" THEN {}
    ELSE {expr} \cup UNION { CallsOf(expr.inputs[i]) : i \in 1..Len(expr.inputs) }

SeqRange(s) == { s[i] : i \in 1..Len(s) }

\* The expressions a node carries, and the aggregate calls among them.
ScalarExprsOf(n) ==
    CASE n.node = "Filter" -> {n.filter}
      [] n.node = "Project" -> SeqRange(n.projections)
      [] n.node = "Aggregation" ->
             SeqRange(n.groupingKeys) \cup (SeqRange(n.aggregateMasks) \ {NullExpr})
             \cup UNION { SeqRange(a.inputs) : a \in SeqRange(n.aggregates) }
      [] n.node = "OrderBy" -> SeqRange(n.sortingKeys)
      [] n.node = "HashJoin" ->
             SeqRange(n.leftKeys) \cup SeqRange(n.rightKeys) \cup ({n.filter} \ {NullExpr})
      [] OTHER -> {}

\* Every call of the plan resolves in the catalog (or is an if/then with an
\* odd number of arguments), and aggregates take no call as argument.
SupportedExpressions(catalog, planNode) ==
    \A n \in PlanNodes(planNode) :
       /\ \A e \in ScalarExprsOf(n) : \A c \in CallsOf(e) :
             \/ c.name = "if" /\ Len(c.inputs) % 2 = 1
             \/ lookupFunction(catalog.scalarFunctionVariants, FALSE,
                               toSubstraitSignature(c)) # <<>>
       /\ n.node = "Aggregation" =>
             \A a \in SeqRange(n.aggregates) :
                /\ lookupFunction(catalog.aggregateFunctionVariants, TRUE,
                                  toSubstraitSignature(a)) # <<>>
                /\ \A i \in 1..Len(a.inputs) : a.inputs[i].e # "call"
       /\ n.node = "HashJoin" =>
             lookupFunction(catalog.scalarFunctionVariants, FALSE,
                 toSubstraitSignature(
                     Call("eq", <<n.leftKeys[1], n.rightKeys[1]>>, "BOOLEAN")))
             # <<>>

\* The plans of the round-trip contract.
InRoundTripClass(catalog, planNode) ==
    /\ NodeKinds(planNode) \subseteq
          {"Values", "Filter", "Project", "Aggregation", "OrderBy", "Limit",
           "HashJoin"}
    /\ \A n \in PlanNodes(planNode) :
          /\ n.node = "Aggregation" => n.step = "kSingle"
          /\ n.node = "HashJoin" => n.joinType = "kInner"
    /\ SupportedExpressions(catalog, planNode)

\* C3: for every plan of the round-trip class, toSubstrait succeeds, and
\* toVeloxPlan of its result succeeds and yields a plan with the same
\* operator tree and the same output column count and types.
C3_RoundTrip ==
    (planResult.status = "done" /\ InRoundTripClass(extension, veloxPlan))
        => /\ planResult.ok
           /\ roundTrip.status = "done"
                 => /\ roundTrip.ok
                    /\ Shape(roundTrip.node) = Shape(veloxPlan)
                    /\ ColumnTypes(roundTrip.node) = ColumnTypes(veloxPlan)

ConvertedKinds == {"Filter", "Values", "Project", "Aggregation", "HashJoin"}

\* C4: toSubstrait fails whenever the plan holds, at any depth, a node
\* whose kind the dispatch does not convert.
C4_NeverSilentlyDegrades ==
    (planResult.status = "done" /\ ~(NodeKinds(veloxPlan) \subseteq ConvertedKinds))
        => ~planResult.ok

\* The function references of a Substrait expression.
FunctionReferences(sExpr) ==
    IF sExpr.rex = "scalarFunction"
    THEN {sExpr.ref} \cup UNION { FunctionReferences(sExpr.args[i]) :
                                  i \in 1..Len(sExpr.args) }
    ELSE IF sExpr.rex = "ifThen"
    THEN FunctionReferences(sExpr.else_)
         \cup UNION { FunctionReferences(sExpr.ifs[i].if_)
                      \cup FunctionReferences(sExpr.ifs[i].then_) :
                      i \in 1..Len(sExpr.ifs) }
    ELSE {}

\* The function references of a relation tree.
RelFunctionReferences(rel) ==
    CASE rel.rel = "filter" ->
             FunctionReferences(rel.condition) \cup RelFunctionReferences(rel.input)
      [] rel.rel = "project" ->
             UNION { FunctionReferences(e) : e \in SeqRange(rel.expressions) }
             \cup RelFunctionReferences(rel.input)
      [] rel.rel = "aggregate" ->
             UNION { UNION { FunctionReferences(e) : e \in SeqRange(g) } :
                     g \in SeqRange(rel.groupings) }
             \cup UNION { {m.measure.functionReference}
                          \cup FunctionReferences(m.filter)
                          \cup UNION { FunctionReferences(e) :
                                       e \in SeqRange(m.measure.arguments) } :
                          m \in SeqRange(rel.measures) }
             \cup RelFunctionReferences(rel.input)
      [] rel.rel = "join" ->
             FunctionReferences(rel.expression)
             \cup RelFunctionReferences(rel.left)
             \cup RelFunctionReferences(rel.right)
      [] OTHER -> {}

RootInput == planResult.plan.relations[1].root.input
DeclaredAnchors ==
    { planResult.plan.extensions[i].functionAnchor :
      i \in 1..Len(planResult.plan.extensions) }

\* The plan of the end-to-end example: Filter(Read(schema=[x:i32]), gte(x,5)).
FilterOverRead ==
    FilterNode("0", GteCall(FieldAccess("x", "INTEGER"), 5), ValuesX)

C8_CollectorScopedToCall ==
    (planResult.status = "done" /\ planResult.ok)
        => /\ DeclaredAnchors = RelFunctionReferences(RootInput)
           /\ Len(planResult.plan.extensions)
                 = Cardinality(RelFunctionReferences(RootInput))

Requests == functionCollector_.requests
IsFirstRequest(i) == \A k \in 1..(i - 1) : Requests[k][1] # Requests[i][1]

\* C9: requests for one variant return one anchor, distinct variants get
\* distinct anchors, anchors grow in the order of first request, and anchor
\* 0 is neither returned nor rendered: every function reference of the
\* produced tree is a returned anchor that the header declares.
C9_AnchorsStable ==
    /\ \A i, j \in 1..Len(Requests) :
          (Requests[i][1] = Requests[j][1]) <=> (Requests[i][2] = Requests[j][2])
    /\ \A i, j \in 1..Len(Requests) :
          (i < j /\ IsFirstRequest(i) /\ IsFirstRequest(j))
              => Requests[i][2] < Requests[j][2]
    /\ \A i \in 1..Len(Requests) : Requests[i][2] # 0
    /\ (planResult.status = "done" /\ planResult.ok)
          => /\ 0 \notin DeclaredAnchors
             /\ \A ref \in RelFunctionReferences(RootInput) :
                   /\ ref # 0
                   /\ ref \in DeclaredAnchors
                   /\ \E i \in 1..Len(Requests) : Requests[i][2] = ref

\* A conversion in which one variant was requested twice and another variant
\* as well, and both are rendered.
C9_Witness ==
    /\ planResult.status = "done"
    /\ planResult.ok
    /\ \E i, j \in 1..Len(Requests) :
          i # j /\ Requests[i][1] = Requests[j][1]
    /\ \E i, j \in 1..Len(Requests) : Requests[i][1] # Requests[j][1]
    /\ Cardinality(RelFunctionReferences(RootInput)) >= 2

----------------------------------------------------------------------------
(* Claims about the lookup order.                                          *)

\* The list the finished lookup searched.
LookedUpVariants ==
    IF matchResult.forAggregateFunc THEN extension.aggregateFunctionVariants
    ELSE extension.scalarFunctionVariants

\* The positions of the per-name bucket that hold an exact entry, an
\* intermediate entry and a consistent wildcard variant for the signature.
NamedEntries ==
    { i \in 1..Len(LookedUpVariants) :
      LookedUpVariants[i].name = querySignature.name }
ExactEntries ==
    { i \in NamedEntries : LookedUpVariants[i].args = querySignature.args }
IntermediateEntries ==
    { i \in NamedEntries :
      /\ LookedUpVariants[i].intermediate # <<>>
      /\ LookedUpVariants[i].intermediate = querySignature.args }
ConsistentWildcards ==
    { i \in NamedEntries :
      LET pattern == LookedUpVariants[i].args
      IN  /\ \E k \in 1..Len(pattern) : pattern[k] \in WildcardTypes
          /\ Len(pattern) = Len(querySignature.args)
          /\ \A k \in 1..Len(pattern) :
                pattern[k] \notin WildcardTypes
                    => pattern[k] = querySignature.args[k]
          /\ \A k, l \in 1..Len(pattern) :
                pattern[k] = pattern[l]
                    => querySignature.args[k] = querySignature.args[l] }

\* C11: a lookup returns an exact entry of the per-name bucket when there is
\* one, otherwise an intermediate entry when there is one, otherwise the
\* first consistent wildcard variant in catalog order, and the empty result
\* when the name has no bucket or the bucket has no matching entry.
C11_LookupOrder ==
    matchResult.status = "looked up" =>
        IF ExactEntries # {}
        THEN \E i \in ExactEntries : matchResult.variant = << LookedUpVariants[i] >>
        ELSE IF IntermediateEntries # {}
        THEN \E i \in IntermediateEntries :
                matchResult.variant = << LookedUpVariants[i] >>
        ELSE IF ConsistentWildcards # {}
        THEN \E i \in ConsistentWildcards :
                /\ \A j \in ConsistentWildcards : i <= j
                /\ matchResult.variant = << LookedUpVariants[i] >>
        ELSE matchResult.variant = <<>>

\* An exact entry was returned although a consistent wildcard variant
\* stands before it in the catalog.
C11_Witness ==
    /\ matchResult.status = "looked up"
    /\ \E i \in ExactEntries : \E j \in ConsistentWildcards :
          /\ j < i
          /\ matchResult.variant = << LookedUpVariants[i] >>

----------------------------------------------------------------------------
(* Claims about the aggregation phase.                                     *)

\* The four pairs of a step and its phase.
PhasePairs ==
    { <<"kPartial", "INITIAL_TO_INTERMEDIATE">>,
      <<"kIntermediate", "INTERMEDIATE_TO_INTERMEDIATE">>,
      <<"kSingle", "INITIAL_TO_RESULT">>,
      <<"kFinal", "INTERMEDIATE_TO_RESULT">> }

\* The measures of the aggregate relation at the root of the plan at hand.
RootMeasures == planResult.plan.relations[1].root.input.measures

\* C12: an aggregation step mapped out is the phase of its pair on every
\* measure and maps back in to the same step; a phase of the four pairs
\* maps in to the step of its pair, which maps out to the same phase; any
\* other phase is fatal for the inbound conversion.
C12_PhaseBijection ==
    /\ (veloxPlan # NoNode /\ planResult.status = "done") =>
           /\ planResult.ok
           /\ \A i \in 1..Len(RootMeasures) :
                 <<veloxPlan.step, RootMeasures[i].measure.phase>> \in PhasePairs
    /\ (veloxPlan # NoNode /\ roundTrip.status = "done") =>
           /\ roundTrip.ok
           /\ roundTrip.node.step = veloxPlan.step
    /\ (veloxPlan = NoNode /\ roundTrip.status = "done"
           /\ Len(RootMeasures) > 0) =>
           LET phase == RootMeasures[1].measure.phase
           IN  IF \E pair \in PhasePairs : pair[2] = phase
               THEN /\ roundTrip.ok
                    /\ <<roundTrip.node.step, phase>> \in PhasePairs
                    /\ toAggregationPhase(roundTrip.node.step) = phase
               ELSE ~roundTrip.ok

\* A final aggregation went out and came back.
C12_Witness ==
    /\ veloxPlan # NoNode
    /\ veloxPlan.step = "kFinal"
    /\ roundTrip.status = "done"
    /\ roundTrip.ok
    /\ roundTrip.node.step = "kFinal"

----------------------------------------------------------------------------
(* Claims about catalog loading.                                           *)

Loaded == mergedExtension.status = "loaded"
LoadThrown == mergedExtension.status = "thrown"

\* A file that cannot be parsed at all: it is not YAML, or it has neither
\* list of functions.
Unparsable(document) ==
    \/ ~document.parsable
    \/ decodeExtension(document).status = "false"

\* The variants of the well-formed impls of a function node.
WellFormedImpls(function, decodedImpls) ==
    LET good == SelectSeq(decodedImpls, LAMBDA d : d.status = "true")
    IN  [j \in 1..Len(good) |->
            [good[j].value EXCEPT !.name = LastLine(function.name.text)]]

\* The variants of the well-formed impls of the named functions of a list.
WellFormedVariants(list, forAggregateFunc) ==
    IF ~IsSequence(list) THEN <<>>
    ELSE Concat([i \in 1..Len(list.items) |->
             IF IsScalar(list.items[i].name) /\ IsSequence(list.items[i].impls)
             THEN WellFormedImpls(list.items[i],
                      [j \in 1..Len(list.items[i].impls.items) |->
                          IF forAggregateFunc
                          THEN decodeAggregateFunctionVariant(
                                   list.items[i].impls.items[j])
                          ELSE decodeScalarFunctionVariant(
                                   list.items[i].impls.items[j])])
             ELSE <<>>])

\* The named type anchors of a list.
WellFormedTypes(list) ==
    IF ~IsSequence(list) THEN <<>>
    ELSE ValuesOf(SelectSeq([i \in 1..Len(list.items) |->
                                decodeTypeAnchor(list.items[i])],
                            LAMBDA d : d.status = "true"))

\* The well-formed entries of the files, each tagged with its file.
WellFormedCatalog(files) ==
    [scalarFunctionVariants |->
         Concat([i \in 1..Len(files) |->
             WithUri(WellFormedVariants(LoadFile(files[i]).scalar_functions,
                                        FALSE), files[i])]),
     aggregateFunctionVariants |->
         Concat([i \in 1..Len(files) |->
             WithUri(WellFormedVariants(LoadFile(files[i]).aggregate_functions,
                                        TRUE), files[i])]),
     types |->
         Concat([i \in 1..Len(files) |->
             WithUri(WellFormedTypes(LoadFile(files[i]).types), files[i])])]

\* C13: a load fails only when one of its files cannot be parsed at all;
\* a load of files that can be parsed succeeds, and its catalog holds every
\* well-formed entry of every file and none of the entries that lack a
\* return type, a required field of an argument or a name.
C13_MalformedEntriesSkipped ==
    (Loaded \/ LoadThrown) =>
        IF \E i \in 1..Len(yamlExtensionFiles) :
               Unparsable(LoadFile(yamlExtensionFiles[i]))
        THEN LoadThrown
        ELSE /\ Loaded
             /\ mergedExtension.extension = WellFormedCatalog(yamlExtensionFiles)

\* The entries each file contributes to the catalog, tagged with the file.
ScalarParts ==
    [i \in 1..Len(yamlExtensionFiles) |->
        WithUri(LoadAs(LoadFile(yamlExtensionFiles[i])).value
                    .scalarFunctionVariants, yamlExtensionFiles[i])]
AggregateParts ==
    [i \in 1..Len(yamlExtensionFiles) |->
        WithUri(LoadAs(LoadFile(yamlExtensionFiles[i])).value
                    .aggregateFunctionVariants, yamlExtensionFiles[i])]
TypeParts ==
    [i \in 1..Len(yamlExtensionFiles) |->
        WithUri(LoadAs(LoadFile(yamlExtensionFiles[i])).value.types,
                yamlExtensionFiles[i])]

RECURSIVE SumOfLengths(_)
SumOfLengths(lists) ==
    IF lists = <<>> THEN 0 ELSE Len(Head(lists)) + SumOfLengths(Tail(lists))

\* C14: the catalog of a load that succeeded is the plain union of its
\* files: each of its three lists is the concatenation, in the order of the
\* file list, of the entries of every file in their order of declaration,
\* its length is the sum of the lengths of the files' lists, and every entry
\* carries the uri of a file that declares it.
C14_PlainUnion ==
    Loaded =>
        /\ mergedExtension.extension.scalarFunctionVariants = Concat(ScalarParts)
        /\ mergedExtension.extension.aggregateFunctionVariants
               = Concat(AggregateParts)
        /\ mergedExtension.extension.types = Concat(TypeParts)
        /\ Len(mergedExtension.extension.scalarFunctionVariants)
               = SumOfLengths(ScalarParts)
        /\ Len(mergedExtension.extension.aggregateFunctionVariants)
               = SumOfLengths(AggregateParts)
        /\ Len(mergedExtension.extension.types) = SumOfLengths(TypeParts)
        /\ \A k \in 1..Len(mergedExtension.extension.scalarFunctionVariants) :
              \E i \in 1..Len(yamlExtensionFiles) :
                  /\ mergedExtension.extension.scalarFunctionVariants[k].uri
                         = yamlExtensionFiles[i]
                  /\ \E j \in 1..Len(ScalarParts[i]) :
                         ScalarParts[i][j]
                             = mergedExtension.extension
                                   .scalarFunctionVariants[k]

\* A file listed twice was loaded, and a function name is declared by two
\* files: every entry is in the catalog.
C14_Witness ==
    /\ Loaded
    /\ \E i, j \in 1..Len(yamlExtensionFiles) :
          /\ i < j
          /\ yamlExtensionFiles[i] = yamlExtensionFiles[j]
          /\ ScalarParts[i] # <<>>
    /\ \E k, l \in 1..Len(mergedExtension.extension.scalarFunctionVariants) :
          /\ k < l
          /\ mergedExtension.extension.scalarFunctionVariants[k]
                 = mergedExtension.extension.scalarFunctionVariants[l]

----------------------------------------------------------------------------
(* Claims about the outbound conversion of joins.                          *)

\* The functions called in the subtrees of a plan node.
RECURSIVE CallsBelow(_)
CallsBelow(planNode) ==
    CASE planNode.node \in {"Filter", "Project", "Aggregation"} ->
           1 + CallsBelow(planNode.sources[1])
      [] planNode.node = "HashJoin" ->
           CallsBelow(planNode.sources[1]) + CallsBelow(planNode.sources[2])
      [] planNode.node \in {"OrderBy", "Limit"} ->
           CallsBelow(planNode.sources[1])
      [] OTHER -> 0

\* C15: the outbound conversion of a join whose type is not inner fails, and
\* it fails before either input is converted: no plan is returned and the
\* function collector holds no function and has received no request.
C15_NonInnerJoinFailsFirst ==
    (/\ planResult.status = "done"
     /\ veloxPlan.node = "HashJoin"
     /\ veloxPlan.joinType # "kInner")
        => /\ ~planResult.ok
           /\ planResult.plan = NoPlan
           /\ functionCollector_ = NewCollector

\* A left join whose two inputs call functions was handed to toSubstrait.
C15_Witness ==
    /\ planResult.status = "done"
    /\ veloxPlan.node = "HashJoin"
    /\ veloxPlan.joinType = "kLeft"
    /\ CallsBelow(veloxPlan.sources[1]) > 0
    /\ CallsBelow(veloxPlan.sources[2]) > 0
    /\ ~planResult.ok

----------------------------------------------------------------------------
(* Claims about the inbound conversion of plans.                           *)

ConvertedIn == roundTrip.status = "done"

\* The mask the converted aggregate applies to its aggregate call i: a list
\* that ends before position i applies none.
MaskAt(i) ==
    IF i <= Len(roundTrip.node.aggregateMasks)
    THEN roundTrip.node.aggregateMasks[i]
    ELSE NullExpr

\* C16: the masks of a converted aggregate are aligned with its aggregate
\* calls: the mask applied to aggregate call i is the column that measure i
\* names as its filter, and it is empty when measure i has no filter.
C16_MasksAlignedWithMeasures ==
    (ConvertedIn /\ RootInput.rel = "aggregate" /\ RootInput.input = ReadXMK)
        => /\ roundTrip.ok
           /\ Len(roundTrip.node.aggregates) = Len(RootInput.measures)
           /\ Len(roundTrip.node.aggregateMasks) <= Len(RootInput.measures)
           /\ \A i \in 1..Len(RootInput.measures) :
                 MaskAt(i)
                     = IF RootInput.measures[i].hasFilter
                       THEN FieldAccess(
                                outputType(roundTrip.node.sources[1])
                                    [RootInput.measures[i].filter.idx + 1].name,
                                "BOOLEAN")
                       ELSE NullExpr

\* C17: every batch of a literal read has the row count of its own field
\* count divided by the column count: the conversion fails when the field
\* count of some batch is not a multiple of the column count, and otherwise
\* it succeeds and the vector of each batch has that many rows.
C17_BatchRowCountIsExactQuotient ==
    (ConvertedIn /\ RootInput.rel = "read" /\ RootInput.hasVirtualTable)
        => IF \E index \in 1..Len(RootInput.values) :
                  Len(RootInput.values[index]) % Len(RootInput.baseSchema) # 0
           THEN ~roundTrip.ok /\ roundTrip.node = NoNode
           ELSE /\ roundTrip.ok
                /\ Len(roundTrip.node.values) = Len(RootInput.values)
                /\ \A index \in 1..Len(RootInput.values) :
                      \A col \in 1..Len(RootInput.baseSchema) :
                          Len(roundTrip.node.values[index][col])
                              = Len(RootInput.values[index])
                                    \div Len(RootInput.baseSchema)

\* C19: a conversion that fails leaves no partial output: the caller gets
\* no plan node, and the split info table is as it was before the call, with
\* no entry for the reads of the failed plan that were converted.
C19_FailureLeavesNoSplitInfo ==
    [][(roundTrip.status = "idle" /\ roundTrip'.status = "done"
            /\ ~roundTrip'.ok)
           => /\ roundTrip'.node = NoNode
              /\ roundTrip'.splitInfoMap_ = roundTrip.splitInfoMap_]_vars

\* The declarations of the plan's own header for the anchor of its measure.
OwnDeclarations ==
    { i \in 1..Len(planResult.plan.extensions) :
      planResult.plan.extensions[i].functionAnchor
          = RootInput.measures[1].measure.functionReference }

\* C20: function names are resolved through the header of the plan that is
\* being converted, whatever plans the converter converted before: the
\* conversion fails when the plan's header does not declare the anchor of its
\* measure, and otherwise the aggregate call has the name that the plan's
\* own header gives to the anchor.
C20_ResolvesInOwnHeader ==
    (ConvertedIn /\ planResult.plan \in AnchorPlans)
        => IF OwnDeclarations = {}
           THEN ~roundTrip.ok
           ELSE /\ roundTrip.ok
                /\ \E i \in OwnDeclarations :
                      /\ \A j \in OwnDeclarations : j <= i
                      /\ roundTrip.node.aggregates[1].name
                             = planResult.plan.extensions[i].name[1]

----------------------------------------------------------------------------
(* Claims about the validation of the leaves of a Read filter.             *)

HasArgument(leaf, kind) ==
    \E i \in 1..Len(leaf.args) : leaf.args[i].rex = kind

\* A leaf toVeloxFilter may fold: one of the five functions, with a field
\* argument and, for a comparison, a literal argument.
ValidLeaf(leaf) ==
    /\ LeafName(leaf) \in FilterNames
    /\ HasArgument(leaf, "selection")
    /\ UsesVal(LeafName(leaf)) => HasArgument(leaf, "literal")

\* C18: toVeloxFilter validates every leaf: when a leaf is of another
\* function than the five, or has no field argument, or is a comparison
\* without a literal argument, the conversion is fatal at that leaf, so every
\* leaf that was folded has its function, column and bound from the leaf
\* itself, and no FilterInfo is reached through a column index that was
\* never set.
C18_EveryLeafValidated ==
    /\ filterPc # "crash"
    /\ filterPc \in {"fold", "done"}
           => \A k \in 1..(foldIdx - 1) : ValidLeaf(scalarFunctions[k])

----------------------------------------------------------------------------
(* Claims about the step of an inbound aggregate.                          *)

\* C21: the step of an inbound aggregate is kSingle when the relation has no
\* measures; otherwise it is the step paired with the phase of the first
\* measure, whatever the phases of the later measures, and the conversion is
\* fatal when the phase of the first measure is none of the four.
C21_StepOfFirstMeasure ==
    (veloxPlan = NoNode /\ roundTrip.status = "done"
        /\ RootInput.rel = "aggregate")
        => IF Len(RootMeasures) = 0
           THEN roundTrip.ok /\ roundTrip.node.step = "kSingle"
           ELSE IF \E pair \in PhasePairs :
                      pair[2] = RootMeasures[1].measure.phase
           THEN /\ roundTrip.ok
                /\ <<roundTrip.node.step, RootMeasures[1].measure.phase>>
                       \in PhasePairs
           ELSE ~roundTrip.ok

\* An aggregate whose first measure is partial and whose second measure has
\* another phase was converted to a partial aggregation.
C21_Witness ==
    /\ veloxPlan = NoNode
    /\ roundTrip.status = "done"
    /\ roundTrip.ok
    /\ Len(RootMeasures) = 2
    /\ RootMeasures[1].measure.phase = "INITIAL_TO_INTERMEDIATE"
    /\ RootMeasures[2].measure.phase \in {"INTERMEDIATE_TO_RESULT", "UNSPECIFIED"}
    /\ roundTrip.node.step = "kPartial"

----------------------------------------------------------------------------
(* Claims about the top-level relations of an inbound plan.                *)

\* The plan has one top-level relation, which is a root with an input or a
\* bare relation.
OneTopLevelRelation(substraitPlan) ==
    /\ Len(substraitPlan.relations) = 1
    /\ \/ /\ has_root(substraitPlan.relations[1])
          /\ substraitPlan.relations[1].root.input # AbsentRel
       \/ /\ ~has_root(substraitPlan.relations[1])
          /\ has_rel(substraitPlan.relations[1])

\* C22: toVeloxPlan(Plan) fails for a plan with no or with several top-level
\* relations, for one relation that is neither a root nor a rel, and for a
\* root without input; the failing call creates no plan node, consumes no
\* node id and records no split info.
C22_ExactlyOneRelation ==
    [][ ( /\ veloxPlan = NoNode
          /\ roundTrip.status = "idle"
          /\ roundTrip'.status = "done"
          /\ ~OneTopLevelRelation(planResult.plan) )
        => /\ ~roundTrip'.ok
           /\ roundTrip'.node = NoNode
           /\ roundTrip'.planNodeId_ = roundTrip.planNodeId_
           /\ roundTrip'.splitInfoMap_ = roundTrip.splitInfoMap_ ]_vars

\* A plan with two relations was refused by a converter that had already
\* handed out a node id.
C22_Witness ==
    /\ veloxPlan = NoNode
    /\ roundTrip.status = "done"
    /\ ~roundTrip.ok
    /\ Len(planResult.plan.relations) = 2
    /\ roundTrip.planNodeId_ > 0

----------------------------------------------------------------------------
(* Claims about the inbound sort.                                          *)

SortDirections ==
    {"ASC_NULLS_FIRST", "ASC_NULLS_LAST", "DESC_NULLS_FIRST", "DESC_NULLS_LAST"}

\* The ascending flag and the nulls placement of a direction and of a
\* native sort order.
DirectionFlags(direction) ==
    [ascending |-> direction \in {"ASC_NULLS_FIRST", "ASC_NULLS_LAST"},
     nullsFirst |-> direction \in {"ASC_NULLS_FIRST", "DESC_NULLS_FIRST"}]
SortOrderFlags(sortOrder) ==
    [ascending |-> sortOrder \in {"kAscNullsFirst", "kAscNullsLast"},
     nullsFirst |-> sortOrder \in {"kAscNullsFirst", "kDescNullsFirst"}]

SortConverted == ConvertedIn /\ RootInput.rel = "sort"

\* C23: an inbound sort is fatal when some direction is not one of the four
\* and when the expression of some sort field is not a field reference;
\* otherwise it succeeds and the order of every sort field has the ascending
\* flag and the nulls placement of its direction, different directions
\* giving different orders.
C23_SortDirections ==
    SortConverted =>
        IF \E i \in 1..Len(RootInput.sorts) :
              RootInput.sorts[i].direction \notin SortDirections
        THEN ~roundTrip.ok
        ELSE IF \E i \in 1..Len(RootInput.sorts) :
                   /\ RootInput.sorts[i].hasExpr
                   /\ RootInput.sorts[i].expr.rex # "selection"
        THEN ~roundTrip.ok
        ELSE /\ roundTrip.ok
             /\ roundTrip.node.node = "OrderBy"
             /\ Len(roundTrip.node.sortingOrders) = Len(RootInput.sorts)
             /\ \A i \in 1..Len(RootInput.sorts) :
                   SortOrderFlags(roundTrip.node.sortingOrders[i])
                       = DirectionFlags(RootInput.sorts[i].direction)
             /\ \A i, j \in 1..Len(RootInput.sorts) :
                   RootInput.sorts[i].direction # RootInput.sorts[j].direction
                       => roundTrip.node.sortingOrders[i]
                              # roundTrip.node.sortingOrders[j]

\* A sort by x descending with nulls last, then by m ascending with nulls
\* first, was converted.
C23_Witness ==
    /\ SortConverted
    /\ roundTrip.ok
    /\ RootInput.sorts = << SortField("DESC_NULLS_LAST", Selection(0)),
                            SortField("ASC_NULLS_FIRST", Selection(1)) >>
    /\ roundTrip.node.sortingOrders = << "kDescNullsLast", "kAscNullsFirst" >>

\* The sort fields that have an expression, in order: the fields of the
\* sorting keys.
KeyFields == SelectSeq(RootInput.sorts, LAMBDA sort : sort.hasExpr)

\* C28: the sort node built inbound has as many sorting keys as sorting
\* orders, and its i-th order is the order of the direction of the sort
\* field of its i-th key.
C28_KeysAlignedWithOrders ==
    (SortConverted /\ roundTrip.ok)
        => /\ Len(roundTrip.node.sortingKeys)
                  = Len(roundTrip.node.sortingOrders)
           /\ \A i \in 1..Len(roundTrip.node.sortingKeys) :
                 << roundTrip.node.sortingOrders[i] >>
                     = toSortOrder(KeyFields[i].direction)

----------------------------------------------------------------------------
(* Claims about outbound calls and projections.                            *)

\* The conversion of a constant or of a column of the input.
ConvertedLeaf(expr, inputType) ==
    IF expr.e = "constant"
    THEN Literal(toSubstraitType(expr.type), expr.value)
    ELSE Selection(getChildIdx(inputType, expr.name))

IsLeaf(expr) == expr.e \in {"constant", "field"}

\* The converted plan was a projection, over values, of one call whose
\* arguments are constants and columns.
OneCallProjected ==
    /\ planResult.status = "done"
    /\ veloxPlan.node = "Project"
    /\ veloxPlan.sources[1].node = "Values"
    /\ Len(veloxPlan.projections) = 1
    /\ veloxPlan.projections[1].e = "call"
    /\ \A i \in 1..Len(veloxPlan.projections[1].inputs) :
          IsLeaf(veloxPlan.projections[1].inputs[i])

ProjectedCall == veloxPlan.projections[1]
SourceType == outputType(veloxPlan.sources[1])

\* C24: a call named "if" with 2k+1 arguments converts to an if/then of k
\* clauses, clause j pairing argument 2j as condition with argument 2j+1 as
\* result, and the last argument as the else branch; a call named "if" with
\* an even number of arguments is fatal; a call of another name is left to
\* the scalar-function converter.
C24_IfThenClauses ==
    OneCallProjected =>
        IF ProjectedCall.name = "if"
        THEN IF Len(ProjectedCall.inputs) % 2 = 1
             THEN /\ planResult.ok
                  /\ RootInput.expressions[1].rex = "ifThen"
                  /\ Len(RootInput.expressions[1].ifs)
                         = (Len(ProjectedCall.inputs) - 1) \div 2
                  /\ \A j \in 0..(((Len(ProjectedCall.inputs) - 1) \div 2) - 1) :
                        /\ RootInput.expressions[1].ifs[j + 1].if_
                               = ConvertedLeaf(ProjectedCall.inputs[2 * j + 1],
                                               SourceType)
                        /\ RootInput.expressions[1].ifs[j + 1].then_
                               = ConvertedLeaf(ProjectedCall.inputs[2 * j + 2],
                                               SourceType)
                  /\ RootInput.expressions[1].else_
                         = ConvertedLeaf(
                               ProjectedCall.inputs[Len(ProjectedCall.inputs)],
                               SourceType)
             ELSE ~planResult.ok
        ELSE IF lookupFunction(extension.scalarFunctionVariants, FALSE,
                               toSubstraitSignature(ProjectedCall)) # <<>>
        THEN planResult.ok /\ RootInput.expressions[1].rex = "scalarFunction"
        ELSE ~planResult.ok

\* An "if" of five arguments was converted to two clauses and an else.
C24_Witness ==
    /\ OneCallProjected
    /\ planResult.ok
    /\ ProjectedCall = IfOfConstants(5)
    /\ Len(RootInput.expressions[1].ifs) = 2
    /\ RootInput.expressions[1].ifs[2].then_ = Literal("i32", 4)
    /\ RootInput.expressions[1].else_ = Literal("i32", 5)

\* The plan is a projection over values of one call, not named "if", whose
\* signature the catalog does not have.
MissesLookup(planNode) ==
    /\ planNode.node = "Project"
    /\ planNode.sources[1].node = "Values"
    /\ Len(planNode.projections) = 1
    /\ planNode.projections[1].e = "call"
    /\ planNode.projections[1].name # "if"
    /\ lookupFunction(extension.scalarFunctionVariants, FALSE,
                      toSubstraitSignature(planNode.projections[1])) = <<>>

\* C25: the conversion of a scalar call whose signature the catalog does
\* not have is fatal and leaves the collector as it was before the call: no
\* anchor is allocated for the function and none for a function of its
\* arguments, which are not converted.
C25_MissLeavesAnchorTable ==
    [][ ( /\ planResult.status = "idle"
          /\ planResult'.status = "done"
          /\ MissesLookup(veloxPlan) )
        => /\ ~planResult'.ok
           /\ functionCollector_' = functionCollector_ ]_vars

\* minus(plus(x, x), x) was refused by a converter that holds anchors of an
\* earlier conversion, although the catalog has plus.
C25_Witness ==
    /\ planResult.status = "done"
    /\ ~planResult.ok
    /\ MissesLookup(veloxPlan)
    /\ veloxPlan.projections[1].inputs[1].e = "call"
    /\ lookupFunction(extension.scalarFunctionVariants, FALSE,
                      toSubstraitSignature(veloxPlan.projections[1].inputs[1]))
           # <<>>
    /\ functionCollector_.functions # <<>>

\* C26: a converted projection of n expressions over an input of m columns
\* has the conversion of its input as input, n expressions in the order of
\* the projections, and the output mapping m, m + 1, ..., m + n - 1; the
\* functions of the input are referenced before those of the expressions.
C26_ProjectEmit ==
    (planResult.status = "done" /\ planResult.ok /\ veloxPlan.node = "Project")
        => /\ RootInput.rel = "project"
           /\ RootInput.input.rel
                  = (IF veloxPlan.sources[1].node = "Filter" THEN "filter"
                     ELSE "read")
           /\ Len(RootInput.expressions) = Len(veloxPlan.projections)
           /\ \A i \in 1..Len(veloxPlan.projections) :
                 IsLeaf(veloxPlan.projections[i])
                     => RootInput.expressions[i]
                            = ConvertedLeaf(veloxPlan.projections[i], SourceType)
           /\ \A i \in 1..Len(veloxPlan.projections) :
                 veloxPlan.projections[i].e = "call"
                     => RootInput.expressions[i].rex
                            = (IF veloxPlan.projections[i].name = "if"
                               THEN "ifThen" ELSE "scalarFunction")
           /\ Len(RootInput.outputMapping) = Len(veloxPlan.projections)
           /\ \A i \in 0..(Len(veloxPlan.projections) - 1) :
                 RootInput.outputMapping[i + 1] = Len(SourceType) + i
           /\ numCalls = 1
                 => \A a \in RelFunctionReferences(RootInput.input) :
                    \A i \in 1..Len(RootInput.expressions) :
                    \A b \in FunctionReferences(RootInput.expressions[i]) :
                        a <= b

\* Two expressions projected from a filtered input of one column, the
\* second calling plus: the mapping is 1, 2 and the filter's function has
\* the smaller anchor.
C26_Witness ==
    /\ planResult.status = "done"
    /\ planResult.ok
    /\ veloxPlan.node = "Project"
    /\ veloxPlan.sources[1].node = "Filter"
    /\ Len(veloxPlan.projections) = 2
    /\ veloxPlan.projections[2].e = "call"
    /\ veloxPlan.projections[2].name = "plus"
    /\ RootInput.outputMapping = <<1, 2>>
    /\ RootInput.input.condition.ref < RootInput.expressions[2].ref

\* C27: the conversion of an aggregation with at least one aggregate and an
\* empty mask list succeeds and emits one measure per aggregate, none with
\* a mask.
C27_EmptyMaskList ==
    ( /\ planResult.status = "done"
      /\ veloxPlan.node = "Aggregation"
      /\ veloxPlan.sources[1].node = "Values"
      /\ Len(veloxPlan.aggregates) >= 1
      /\ veloxPlan.aggregateMasks = <<>> )
        => /\ planResult.ok
           /\ Len(RootInput.measures) = Len(veloxPlan.aggregates)
           /\ \A i \in 1..Len(RootInput.measures) :
                 RootInput.measures[i].filter = NotSet

----------------------------------------------------------------------------
(* Claims about the names that join decomposition and filter flattening    *)
(* compare.                                                                *)

\* The name before the delimiter of the function a node refers to.
NameBeforeDelimiter(fmap, e) ==
    getNameBeforeDelimiter(findFunctionSpec(fmap, e.ref), ":")

\* Every node of e that flattenConditions splits as "and" has two arguments.
RECURSIVE BinaryAnds(_, _)
BinaryAnds(fmap, e) ==
    (e.rex = "scalarFunction" /\ NameBeforeDelimiter(fmap, e) = <<"and">>)
        => /\ Len(e.args) = 2
           /\ \A i \in 1..2 : BinaryAnds(fmap, e.args[i])

\* A leaf of flattenConditions that is an eq, by the name before the
\* delimiter, of two field references.
IsFieldEqByName(fmap, e) ==
    /\ NameBeforeDelimiter(fmap, e) = <<"eq">>
    /\ Len(e.args) = 2
    /\ \A i \in 1..2 : e.args[i].rex = "selection"

\* C29: extractJoinKeys recognises "and" and "eq" nodes by the rule of
\* flattenConditions, the name before the ':' delimiter: a condition that
\* flattenConditions splits into eq leaves over field references, through
\* binary "and" nodes, is decomposed into one key pair per leaf.
C29_SameConjunctionRule ==
    ( /\ JoinRan
      /\ flattenConditions(functionMap_, joinExpression).ok
      /\ BinaryAnds(functionMap_, joinExpression)
      /\ \A i \in 1..Len(flattenConditions(functionMap_, joinExpression).leaves) :
            IsFieldEqByName(functionMap_,
                flattenConditions(functionMap_, joinExpression).leaves[i]) )
        => /\ joinResult.status = "done"
           /\ Len(joinResult.leftExprs)
                  = Len(flattenConditions(functionMap_, joinExpression).leaves)
           /\ Len(joinResult.rightExprs)
                  = Len(flattenConditions(functionMap_, joinExpression).leaves)

----------------------------------------------------------------------------
(* Claims about the ids of the nodes built inbound.                        *)

\* The number that a node id is the decimal rendering of.
IdValue(id) == CHOOSE n \in 0..MaxNodeId : ToString(n) = id

RECURSIVE SubtreeIds(_), NodeCount(_), ReadIds(_), IdsOrdered(_)
\* The ids of the nodes of a plan, as numbers, and the number of its nodes.
SubtreeIds(planNode) ==
    {IdValue(planNode.id)}
        \cup UNION { SubtreeIds(planNode.sources[i]) :
                     i \in 1..Len(planNode.sources) }
NodeCount(planNode) ==
    1 + SeqSum([i \in 1..Len(planNode.sources) |->
                   NodeCount(planNode.sources[i])])

\* The ids of the nodes that reads were converted to.
ReadIds(planNode) ==
    IF planNode.sources = <<>> THEN {planNode.id}
    ELSE UNION { ReadIds(planNode.sources[i]) :
                 i \in 1..Len(planNode.sources) }

\* Every node has a greater id than the nodes of its inputs, and the nodes
\* of the left input of a join have smaller ids than those of the right.
IdsOrdered(planNode) ==
    /\ \A i \in 1..Len(planNode.sources) :
          /\ \A id \in SubtreeIds(planNode.sources[i]) :
                id < IdValue(planNode.id)
          /\ IdsOrdered(planNode.sources[i])
    /\ Len(planNode.sources) = 2
          => \A a \in SubtreeIds(planNode.sources[1]) :
             \A b \in SubtreeIds(planNode.sources[2]) : a < b

\* C30: the nodes a conversion builds have distinct ids that the converter
\* had not handed out before the call, every node has a greater id than the
\* nodes of its inputs (for a join: left subtree < right subtree < join),
\* and the split info of every read is recorded under the id of the node
\* the read was converted to.
C30_NodeIds ==
    [][ ( /\ veloxPlan = NoNode
          /\ roundTrip.status = "idle"
          /\ roundTrip'.status = "done"
          /\ roundTrip'.ok )
        => /\ Cardinality(SubtreeIds(roundTrip'.node))
                  = NodeCount(roundTrip'.node)
           /\ IdsOrdered(roundTrip'.node)
           /\ \A id \in SubtreeIds(roundTrip'.node) :
                 roundTrip.planNodeId_ <= id /\ id < roundTrip'.planNodeId_
           /\ DOMAIN roundTrip'.splitInfoMap_
                  = DOMAIN roundTrip.splitInfoMap_
                        \cup ReadIds(roundTrip'.node) ]_vars

\* A join of a join was built by a converter that had built nodes before:
\* six new nodes, and a split info for each of the reads so far.
C30_Witness ==
    /\ veloxPlan = NoNode
    /\ roundTrip.status = "done"
    /\ roundTrip.ok
    /\ roundTrip.node.node = "HashJoin"
    /\ roundTrip.node.sources[1].node = "HashJoin"
    /\ NodeCount(roundTrip.node) = 6
    /\ IdValue(roundTrip.node.id) > 5
    /\ ReadIds(roundTrip.node) \subseteq DOMAIN roundTrip.splitInfoMap_
    /\ Cardinality(DOMAIN roundTrip.splitInfoMap_) > 3

====
